---- MODULE Spec2Model ----
(***************************************************************************)
(* Durability / failover subsystem of the log server:                      *)
(*   LogCache        (utils/logCache.ts, src/unnamed/part_006)              *)
(*   DatabaseHealth  (utils/databaseHealth.ts, src/src/utils/scheduler.ts)  *)
(*   createLog, createLogsBatch, processCachedLogs, clearCache controllers  *)
(*                   (src/src/controllers/logController.ts)                 *)
(*                                                                         *)
(* Node.js runs one task at a time and a task yields only at an await.     *)
(* Every action below is the code between two awaits of one task, so the   *)
(* interleavings of the model are the interleavings of the event loop.     *)
(***************************************************************************)
EXTENDS Integers, Sequences, FiniteSets, Bags, TLC

(***************************************************************************)
(* Bounds of the model.  The program's limits (10000 entries, 50MB, 100    *)
(* records per batch) are scaled down so that they are reached with a few  *)
(* records: EntryBound and ByteBound are the values LogCache's fields      *)
(* maxCacheSize and maxFileSize are constructed with.                      *)
(***************************************************************************)
MaxRecords == 2
EntryBound == 1
ByteBound == 5
batchSize == 1
MaxBatch == 2
MaxRetryCount == 1
\* startHealthCheck checked alone: failed probes in a row, timers created
ProbeFailures == 7
MaxTimers == 3
\* the hourly statistics task checked alone: hours the clock runs
MaxHour == 96
\* getTimeRange checked alone: target times sampled
KeySamples == 70
\* The outage scenario: records submitted while the backend is down.
OutageRecords == 3
\* addToCache checked on queues an earlier run left behind.
AppendEntryBound == 2
\* Drains checked without concurrent appends: longest queue they start on.
DrainLen == 3
\* writeCache checked alone: longest list it is given.
MaxLen == 4

\* JSON.stringify([]) is "[]": two bytes around the entries.
BracketBytes == 2

Clients == {"c1", "c2"}
Probers == {"tick", "manual", "start"}
Callers == Clients \cup Probers

\* Serialized sizes of one record, in scaled units, where the byte bound is
\* exercised.
AnySizes == {1, 3, 4}

VARIABLES
  maxCacheSize,  \* LogCache.maxCacheSize
  maxFileSize,   \* LogCache.maxFileSize
  offered,       \* the environment: how many records the producers
                 \* submit, their serialized sizes, whether a batch may
                 \* carry an empty message, whether file I/O may fail
  cacheFile,     \* content of cache/logs_cache.json: the persisted queue
  isProcessing,  \* LogCache.isProcessing
  isHealthy,     \* DatabaseHealth.isHealthy
  retryCount,    \* DatabaseHealth.retryCount
  wasUnhealthy,  \* checkDatabaseConnection's local of each probe in progress
  checkInterval, \* DatabaseHealth.checkInterval: a timer, or NoTimer for null
  healthCheckInterval, \* DatabaseHealth.healthCheckInterval
  timers,        \* the interval timers of the event loop that are not cleared
  nextTimer,     \* identity of the next timer setInterval creates
  stopReturned,  \* stopHealthCheck() has returned and the health check
                 \* has not been started again since
  dbUp,          \* the backend accepts health checks and inserts
  stored,        \* backend rows written by a direct insertLog of a request
  replayed,      \* backend rows written by a drain's insertFunction
  nextId,        \* next fresh record identity (_cache_id / request identity)
  pc,            \* position of every request handler and probe
  req,           \* locals of the request a client is handling
  dpc,           \* position of each caller's processCachedLogs call
  drain,         \* locals and last result of each caller's processCachedLogs
  queuedEver,    \* records some addToCache has persisted
  evicted,       \* records dropped by a capacity bound or by the clear request
  event,         \* what the last step returned to its caller, if anything
  wcLogs,        \* writeCache checked alone: the list it is given
  wcPersisted,   \* writeCache checked alone: what it wrote to the file
  wcPhase,
  clock,         \* wall-clock time, in whole hours since Origin
  hourly,        \* StatisticsScheduler's hourlyTask callback: its position,
                 \* its local `now`, the passes it has awaited so far
  isRunning,     \* StatisticsScheduler.isRunning
  cronTasks,     \* StatisticsScheduler.cronTasks: the cron rules scheduled
  cleanup,       \* the daily, weekly and monthly cleanup callbacks
  initial,       \* runInitialUpdate: its position and the passes it made
  rawStore,      \* ClickHouse application_logs: the raw records
  rollup,        \* MySQL log statistics table: the rollup rows
  pass,          \* locals of the updateStatistics call in progress
  settled        \* granularities and targets whose last pass has read the
                 \* raw store as it is now

vars == <<maxCacheSize, maxFileSize, offered, cacheFile, isProcessing,
          isHealthy, retryCount, wasUnhealthy, checkInterval,
          healthCheckInterval, timers, nextTimer, stopReturned, dbUp, stored,
          replayed,
          nextId, pc, req, dpc, drain, queuedEver, evicted, event,
          wcLogs, wcPersisted, wcPhase, clock, hourly, isRunning, cronTasks,
          cleanup, initial, rawStore, rollup, pass, settled>>

hcVars == <<checkInterval, healthCheckInterval, timers, nextTimer, stopReturned>>
cacheVars == <<cacheFile, isProcessing, isHealthy, retryCount, wasUnhealthy,
               checkInterval, healthCheckInterval, timers, nextTimer,
               stopReturned,
               dbUp, stored,
               replayed, nextId, pc, req, dpc, drain, queuedEver, evicted, event>>
wcVars == <<wcLogs, wcPersisted, wcPhase>>
schedVars == <<isRunning, cronTasks, cleanup, initial>>
rollupVars == <<rawStore, rollup, pass, settled>>
aggVars == <<clock, hourly, schedVars, rollupVars>>
fields == <<maxCacheSize, maxFileSize, offered>>

----------------------------------------------------------------------------
(* Sequences *)

Range(s) == {s[i] : i \in 1..Len(s)}

\* Array.prototype.slice(from): the elements from 0-based index `from` on.
Slice(s, from) == SubSeq(s, from + 1, Len(s))

\* Array.prototype.filter
RECURSIVE Filter(_, _)
Filter(s, keep) ==
  IF s = <<>> THEN <<>>
  ELSE IF Head(s) \in keep THEN <<Head(s)>> \o Filter(Tail(s), keep)
       ELSE Filter(Tail(s), keep)

RECURSIVE SumSizes(_)
SumSizes(s) == IF s = <<>> THEN 0 ELSE Head(s).size + SumSizes(Tail(s))

\* Buffer.byteLength(JSON.stringify(logs, null, 2), 'utf-8')
ByteLength(logs) == BracketBytes + SumSizes(logs)

----------------------------------------------------------------------------
(* LogCache: the two capacity bounds *)

TrimEntriesKeepOldest(existing) ==
  IF Len(existing) > maxCacheSize THEN SubSeq(existing, 1, maxCacheSize)
  ELSE existing

TrimEntriesOffByOne(existing) ==
  IF Len(existing) > maxCacheSize + 1
  THEN Slice(existing, Len(existing) - maxCacheSize - 1)
  ELSE existing

\* addToCache: existingCache.splice(0, existingCache.length - maxCacheSize)
TrimEntries(existing) ==
  IF Len(existing) > maxCacheSize
  THEN Slice(existing, Len(existing) - maxCacheSize)
  ELSE existing

WriteCacheContentOldestHalf(logs) ==
  IF ByteLength(logs) > maxFileSize
  THEN SubSeq(logs, 1, Len(logs) - (Len(logs) \div 2))
  ELSE logs

\* writeCache: the content handed to fs.writeFile
WriteCacheContent(logs) ==
  IF ByteLength(logs) > maxFileSize
  THEN Slice(logs, Len(logs) \div 2)
  ELSE logs

----------------------------------------------------------------------------
(* State after construction *)

\* A LogData record: identity, serialized size, whether message is
\* non-empty, and the entry point that accepted it.
LogRecord(n, s, m, k) == [id |-> n, size |-> s, message |-> m, kind |-> k]

\* Locals of a request handler.  unhealthy: isHealthy was false when the
\* handler read it.
NoRequest ==
  [kind |-> "none", logs |-> <<>>, snapshot |-> <<>>, idx |-> 0,
   unhealthy |-> FALSE, insertFailed |-> FALSE]

\* Locals of processCachedLogs.
NoDrain ==
  [cachedLogs |-> <<>>, idx |-> 0, processedLogs |-> {}, processed |-> 0,
   failed |-> 0, errors |-> <<>>]

NoEvent == [type |-> "none"]

\* A handler's HTTP response.
Response(c, r, how) ==
  [type |-> "response", client |-> c, kind |-> r.kind, logs |-> r.logs,
   unhealthy |-> r.unhealthy, insertFailed |-> r.insertFailed, resp |-> how]

\* addToCache has persisted: existing is the queue it read plus the new
\* records, handed is existingCache after the splice, as given to writeCache.
Appended(c, r, existing, handed) ==
  [type |-> "append", client |-> c, logs |-> r.logs, unhealthy |-> r.unhealthy,
   existing |-> existing, handed |-> handed]

\* The error message the outer catch of processCachedLogs returns; the
\* per-record messages carry the record's _cache_id.
QueueIOError == 0

\* The value processCachedLogs returns, with the snapshot it worked on.
\* how: "skipped" (another drain is running), "empty", "done", or "error"
\* (the outer catch, which returns its own message as the only error).
Result(k, d, how) ==
  [type |-> "result", caller |-> k, total |-> Len(d.cachedLogs),
   processed |-> d.processed, failed |-> d.failed,
   errors |-> IF how = "error" THEN <<QueueIOError>> ELSE d.errors,
   snapshot |-> d.cachedLogs, how |-> how]

\* checkInterval: NodeJS.Timeout | null = null
NoTimer == 0

\* healthCheckInterval: number = 30000
DefaultInterval == 30000

\* What setInterval(callback, ms) creates.
Timer(n, ms) == [id |-> n, every |-> ms]

\* DatabaseHealth's timer after construction, or after index.ts has awaited
\* startHealthCheck().
InitHealthCheck(started) ==
  /\ checkInterval = IF started THEN 1 ELSE NoTimer
  /\ healthCheckInterval = DefaultInterval
  /\ timers = IF started THEN {Timer(1, DefaultInterval)} ELSE {}
  /\ nextTimer = IF started THEN 2 ELSE 1
  /\ stopReturned = FALSE

----------------------------------------------------------------------------
(* The calendar of dayjs, on a clock of whole hours *)

\* Hour 0 of the clock is 2024-01-01 00:00 local time, a Monday.
Epoch == [year |-> 2024, weekday |-> 1]

IsLeap(y) == (y % 4 = 0 /\ y % 100 # 0) \/ y % 400 = 0
DaysInYear(y) == IF IsLeap(y) THEN 366 ELSE 365
DaysInMonth(y, m) ==
  IF m = 2 THEN (IF IsLeap(y) THEN 29 ELSE 28)
  ELSE IF m \in {4, 6, 9, 11} THEN 30 ELSE 31

RECURSIVE YearFrom(_, _)
YearFrom(d, y) ==
  IF d < DaysInYear(y)
  THEN [year |-> y, doy |-> d]
  ELSE YearFrom(d - DaysInYear(y), y + 1)

RECURSIVE MonthFrom(_, _, _)
MonthFrom(doy, y, m) ==
  IF doy < DaysInMonth(y, m)
  THEN [month |-> m, date |-> doy + 1]
  ELSE MonthFrom(doy - DaysInMonth(y, m), y, m + 1)

\* The day of the clock hour t, counted from the epoch.
DayOf(t) == t \div 24

\* dayjs(t).year(), .month() + 1, .date(), .hour()
DateOf(t) ==
  LET yd == YearFrom(DayOf(t), Epoch.year)
      md == MonthFrom(yd.doy, yd.year, 1)
  IN [year |-> yd.year, month |-> md.month, date |-> md.date, hour |-> t % 24]

\* dayjs(t).day()
WeekdayOf(t) == (Epoch.weekday + DayOf(t)) % 7
DayOfMonth(t) == DateOf(t).date

RECURSIVE DaysBeforeYear(_)
DaysBeforeYear(y) ==
  IF y = Epoch.year THEN 0 ELSE DaysBeforeYear(y - 1) + DaysInYear(y - 1)

RECURSIVE DaysBeforeMonth(_, _)
DaysBeforeMonth(y, m) ==
  IF m = 1 THEN 0 ELSE DaysBeforeMonth(y, m - 1) + DaysInMonth(y, m - 1)

\* The clock hour of year-month-date hour:00.
HourAt(y, m, d, h) == 24 * (DaysBeforeYear(y) + DaysBeforeMonth(y, m) + d - 1) + h

\* The process starts at 2025-06-28 00:00, a Saturday.
Origin == HourAt(2025, 6, 28, 0)

\* The hourly callback between two cron ticks.
NoTick == [pc |-> "idle", now |-> 0, passes |-> <<>>]

\* The cron rules start() schedules, and the cleanup tasks among them.
CronRules == {"hourly", "daily", "weekly", "monthly"}
CleanupTasks == {"daily", "weekly", "monthly"}

\* A cleanup callback that is not running.
NoCleanup == [pc |-> "idle", now |-> 0]

\* runInitialUpdate() is not running.
NoInitial == [pc |-> "idle", passes |-> <<>>]

\* No updateStatistics call is in progress.
NoPass == [pc |-> "idle"]

\* StatisticsScheduler after construction, or after index.ts has called
\* start() and the initial update has ended.
InitScheduler(started) ==
  /\ isRunning = started
  /\ cronTasks = IF started THEN CronRules ELSE {}
  /\ hourly = NoTick
  /\ cleanup = [task \in CleanupTasks |-> NoCleanup]
  /\ initial = NoInitial

\* Empty stores.
InitRollup ==
  /\ rawStore = EmptyBag
  /\ rollup = EmptyBag
  /\ pass = NoPass
  /\ settled = {}

InitAggregation ==
  /\ clock = Origin
  /\ InitScheduler(TRUE)
  /\ InitRollup

\* The process has just started on the cache file `queue`, which an earlier
\* run left behind; the backend is in one of the states `up`.
InitProcess(queue, up) ==
  /\ cacheFile = queue
  /\ isProcessing = FALSE
  /\ isHealthy = FALSE
  /\ retryCount = 0
  /\ wasUnhealthy = [p \in Probers |-> FALSE]
  /\ dbUp \in up
  /\ stored = {}
  /\ replayed = {}
  /\ nextId = Len(queue) + 1
  /\ pc = [t \in Callers |-> "idle"]
  /\ req = [c \in Clients |-> NoRequest]
  /\ dpc = [k \in Callers |-> "idle"]
  /\ drain = [k \in Callers |-> NoDrain]
  /\ queuedEver = Range(queue)
  /\ evicted = {}
  /\ event = NoEvent

\* The same once index.ts has called startHealthCheck().
InitCacheWith(queue, up) ==
  /\ InitProcess(queue, up)
  /\ InitAggregation
  /\ InitHealthCheck(TRUE)

InitCache == InitCacheWith(<<>>, BOOLEAN)

InitWriteCacheIdle ==
  /\ wcLogs = <<>>
  /\ wcPersisted = <<>>
  /\ wcPhase = "off"

\* The full system: records of one size, any message, failing file I/O.
Init ==
  /\ maxCacheSize = EntryBound
  /\ maxFileSize = ByteBound
  /\ offered = [records |-> MaxRecords, sizes |-> {1}, messages |-> BOOLEAN,
                ioFails |-> TRUE, failures |-> MaxRetryCount]
  /\ InitCache
  /\ InitWriteCacheIdle

\* Records with the serialized sizes sz, oldest first.
RecordsOf(sz) == [i \in 1..Len(sz) |-> LogRecord(i, sz[i], TRUE, "earlier")]

\* Every list of at most n records with sizes from S.
Lists(n, S) == {RecordsOf(sz) : sz \in UNION {[1..m -> S] : m \in 0..n}}

\* Every queue of at most n records with sizes from S and messages from Ms:
\* an empty message is what createLogsBatch lets through.
QueueLists(n, S, Ms) ==
  {[i \in 1..m |-> LogRecord(i, sz[i], msg[i], "earlier")] :
     <<m, sz, msg>> \in UNION {{m} \X [1..m -> S] \X [1..m -> Ms] : m \in 0..n}}

\* Outcomes of fs.writeFile / fs.copyFile: done, or rejected.
IOOutcomes == IF offered.ioFails THEN BOOLEAN ELSE {TRUE}

----------------------------------------------------------------------------
(* processCachedLogs: entry *)

ShouldSkipNever(flag) == FALSE

InsertLogRejects(log) == FALSE

\* if (this.isProcessing) return { processed: 0, failed: 0, errors: [] }
ShouldSkip(flag) == flag

----------------------------------------------------------------------------
(* createLog / createLogsBatch *)

\* insertLog resolves: the backend is reachable and the record passes
\* insertLog's own check of message.
InsertLogOK(log) == dbUp /\ log.message

UseCacheNever(healthy) == FALSE

AfterInsertsNoFallback(failed) == "cacheInfo"

AfterInsertsAlwaysCache(failed) == "cacheRead"

\* try { await insertLog(...) ... } catch { await logCache.addToCache(...) }
AfterInserts(failed) == IF failed THEN "cacheRead" ELSE "cacheInfo"

\* if (!databaseHealth.getHealthStatus().isHealthy): cache directly
UseCache(healthy) == ~healthy

\* createLog up to its first await: validation, then the health decision.
CreateLog(c) ==
  /\ pc[c] = "idle"
  /\ \E valid \in BOOLEAN, s \in offered.sizes :
       IF ~valid
       THEN /\ event' = Response(c, [NoRequest EXCEPT !.kind = "single"], "rejected")
            /\ UNCHANGED <<pc, req, nextId>>
       ELSE /\ nextId <= offered.records
            /\ req' = [req EXCEPT ![c] =
                         [NoRequest EXCEPT
                            !.kind = "single",
                            !.logs = <<LogRecord(nextId, s, TRUE, "single")>>,
                            !.unhealthy = ~isHealthy]]
            /\ nextId' = nextId + 1
            /\ pc' = [pc EXCEPT ![c] =
                        IF UseCache(isHealthy) THEN "cacheRead" ELSE "insert"]
            /\ event' = NoEvent
  /\ UNCHANGED <<cacheFile, isProcessing, isHealthy, retryCount, dbUp, stored,
                 replayed, dpc, drain, queuedEver, evicted, wcVars, aggVars, fields,
                 wasUnhealthy, hcVars>>

\* createLogsBatch up to its first await: only the array is validated, the
\* records are not, then the health decision.
CreateLogsBatch(c) ==
  /\ pc[c] = "idle"
  /\ \E n \in 0..MaxBatch :
       IF n = 0
       THEN /\ event' = Response(c, [NoRequest EXCEPT !.kind = "batch"], "rejected")
            /\ UNCHANGED <<pc, req, nextId>>
       ELSE /\ nextId + n - 1 <= offered.records
            /\ \E s \in offered.sizes, msg \in [1..n -> offered.messages] :
                 req' = [req EXCEPT ![c] =
                           [NoRequest EXCEPT
                              !.kind = "batch",
                              !.logs = [i \in 1..n |->
                                 LogRecord(nextId + i - 1, s, msg[i], "batch")],
                              !.unhealthy = ~isHealthy]]
            /\ nextId' = nextId + n
            /\ pc' = [pc EXCEPT ![c] =
                        IF UseCache(isHealthy) THEN "cacheRead" ELSE "insert"]
            /\ event' = NoEvent
  /\ UNCHANGED <<cacheFile, isProcessing, isHealthy, retryCount, dbUp, stored,
                 replayed, dpc, drain, queuedEver, evicted, wcVars, aggVars, fields,
                 wasUnhealthy, hcVars>>

\* One insertLog of the request settles (createLog has one, createLogsBatch
\* one per record under Promise.all).  When all have settled the handler
\* continues in its try block or in its catch block.
RequestInsert(c) ==
  /\ pc[c] = "insert"
  /\ LET r == req[c]
         log == r.logs[r.idx + 1]
         ok == InsertLogOK(log)
         failedNow == r.insertFailed \/ ~ok
         last == r.idx + 1 = Len(r.logs)
     IN /\ stored' = IF ok THEN stored \cup {log} ELSE stored
        /\ req' = [req EXCEPT ![c].idx = r.idx + 1, ![c].insertFailed = failedNow]
        /\ pc' = [pc EXCEPT ![c] =
                    IF ~last THEN "insert"
                    ELSE AfterInserts(failedNow)]
  /\ event' = NoEvent
  /\ UNCHANGED <<cacheFile, isProcessing, isHealthy, retryCount, dbUp, replayed,
                 nextId, dpc, drain, queuedEver, evicted, wcVars, aggVars, fields,
                 wasUnhealthy, hcVars>>

TriggerStartsNever(count, healthy, flag) == FALSE

\* if (cacheInfo.count > 0) databaseHealth.triggerCacheProcessing(): a drain
\* starts unless triggerCacheProcessing refuses (unhealthy) or
\* processCachedLogs skips (one is running).
TriggerStarts(count, healthy, flag) ==
  count > 0 /\ healthy /\ ~ShouldSkip(flag)

\* After a successful direct write: getCacheInfo, then the detached
\* triggerCacheProcessing() when the queue is not empty, then the response.
\* triggerCacheProcessing runs synchronously up to processCachedLogs' first
\* await, so the single-flight flag is tested and set within this step.
RequestCacheInfo(c) ==
  /\ pc[c] = "cacheInfo"
  /\ LET starts == TriggerStarts(Len(cacheFile), isHealthy, isProcessing)
     IN /\ starts => dpc[c] = "idle"
        /\ isProcessing' = IF starts THEN TRUE ELSE isProcessing
        /\ dpc' = IF starts THEN [dpc EXCEPT ![c] = "read"] ELSE dpc
        /\ drain' = IF starts THEN [drain EXCEPT ![c] = NoDrain] ELSE drain
  /\ event' = Response(c, req[c], "stored")
  /\ req' = [req EXCEPT ![c] = NoRequest]
  /\ pc' = [pc EXCEPT ![c] = "idle"]
  /\ UNCHANGED <<cacheFile, isHealthy, retryCount, dbUp, stored, replayed,
                 nextId, queuedEver, evicted, wcVars, aggVars, fields,
                 wasUnhealthy, hcVars>>

\* addToCache: const existingCache = await this.readCache().  The cache file
\* is readable throughout: readCache returns its content, [] when empty.
AddToCacheRead(c) ==
  /\ pc[c] = "cacheRead"
  /\ req' = [req EXCEPT ![c].snapshot = cacheFile]
  /\ pc' = [pc EXCEPT ![c] = "cacheWrite"]
  /\ event' = NoEvent
  /\ UNCHANGED <<cacheFile, isProcessing, isHealthy, retryCount, dbUp, stored,
                 replayed, nextId, dpc, drain, queuedEver, evicted, wcVars, aggVars, fields,
                 wasUnhealthy, hcVars>>

\* addToCache: push, entry bound, writeCache.  fs.writeFile either replaces
\* the file or rejects; a rejection becomes the handler's 500 response.
AddToCacheWrite(c) ==
  /\ pc[c] = "cacheWrite"
  /\ \E written \in IOOutcomes :
       LET existing == req[c].snapshot \o req[c].logs
           content == WriteCacheContent(TrimEntries(existing))
       IN IF written
          THEN /\ cacheFile' = content
               /\ queuedEver' = queuedEver \cup Range(req[c].logs)
               /\ evicted' = evicted \cup (Range(existing) \ Range(content))
               /\ pc' = [pc EXCEPT ![c] = "cachedInfo"]
               /\ req' = [req EXCEPT ![c].snapshot = <<>>]
               /\ event' = Appended(c, req[c], existing, TrimEntries(existing))
          ELSE /\ event' = Response(c, [req[c] EXCEPT !.snapshot = <<>>], "error")
               /\ req' = [req EXCEPT ![c] = NoRequest]
               /\ pc' = [pc EXCEPT ![c] = "idle"]
               /\ UNCHANGED <<cacheFile, queuedEver, evicted>>
  /\ UNCHANGED <<isProcessing, isHealthy, retryCount, dbUp, stored, replayed,
                 nextId, dpc, drain, wcVars, aggVars, fields,
                 wasUnhealthy, hcVars>>

\* After addToCache: getCacheInfo, then the "cached" response.
RequestCachedInfo(c) ==
  /\ pc[c] = "cachedInfo"
  /\ event' = Response(c, req[c], "cached")
  /\ req' = [req EXCEPT ![c] = NoRequest]
  /\ pc' = [pc EXCEPT ![c] = "idle"]
  /\ UNCHANGED <<cacheFile, isProcessing, isHealthy, retryCount, dbUp, stored,
                 replayed, nextId, dpc, drain, queuedEver, evicted, wcVars, aggVars, fields,
                 wasUnhealthy, hcVars>>

\* The clearCache controller: logCache.clearCache() is writeCache([]).
ClearCacheRequest ==
  /\ cacheFile # <<>>
  /\ cacheFile' = WriteCacheContent(<<>>)
  /\ evicted' = evicted \cup Range(cacheFile)
  /\ event' = NoEvent
  /\ UNCHANGED <<isProcessing, isHealthy, retryCount, dbUp, stored, replayed,
                 nextId, pc, req, dpc, drain, queuedEver, wcVars, aggVars, fields,
                 wasUnhealthy, hcVars>>

----------------------------------------------------------------------------
(* DatabaseHealth.checkDatabaseConnection and the drain it starts *)

\* The rest of a successful probe once its reconciliation call has returned
\* (or was not made): this.isHealthy = true.  The manual controller then
\* calls triggerCacheProcessing(), which runs synchronously up to
\* processCachedLogs' first await.  flag is isProcessing at that point and e
\* the event of the step so far.
\* startHealthCheck after its awaited initial probe:
\* this.checkInterval = setInterval(..., this.healthCheckInterval).  Every
\* other caller of the probe leaves the timers alone.
StartContinues(p) ==
  IF p = "start"
  THEN /\ checkInterval' = nextTimer
       /\ timers' = timers \cup {Timer(nextTimer, healthCheckInterval)}
       /\ nextTimer' = nextTimer + 1
       /\ UNCHANGED <<healthCheckInterval, stopReturned>>
  ELSE UNCHANGED hcVars

FinishProbe(p, flag, e) ==
  /\ isHealthy' = TRUE
  /\ StartContinues(p)
  /\ wasUnhealthy' = [wasUnhealthy EXCEPT ![p] = FALSE]
  /\ drain' = [drain EXCEPT ![p] = NoDrain]
  /\ IF p = "manual" /\ ~ShouldSkip(flag)
     THEN /\ isProcessing' = TRUE
          /\ dpc' = [dpc EXCEPT ![p] = "read"]
          /\ pc' = [pc EXCEPT ![p] = "tdrain"]
          /\ event' = e
     ELSE /\ isProcessing' = flag
          /\ dpc' = [dpc EXCEPT ![p] = "idle"]
          /\ pc' = [pc EXCEPT ![p] = "idle"]
          /\ event' = IF p = "manual" THEN Result(p, NoDrain, "skipped") ELSE e

HealthOnSuccessDeferred(healthy) == healthy

\* if (wasUnhealthy) { this.isHealthy = true; ... }: isHealthy as the probe
\* leaves it before it calls its reconciliation hook.
HealthOnSuccess(healthy) == IF ~healthy THEN TRUE ELSE healthy

\* What a probe reports when database.healthCheck() has settled: its
\* outcome, and retryCount as it was before.
Probed(p, success) ==
  [type |-> "probe", prober |-> p, success |-> success, before |-> retryCount]

\* private maxRetries: number = 5
maxRetries == 5

RetryAfterFailureCapped(count) == IF count < maxRetries THEN count + 1 ELSE count

\* this.retryCount++
RetryAfterFailure(count) == count + 1

\* Where a probe waits for database.healthCheck(): the periodic and the
\* manual probe are called and settle in one step, startHealthCheck's
\* initial probe is called by StartHealthCheck.
Waiting(p) == IF p = "start" THEN "check" ELSE "idle"

\* database.healthCheck() settles and the probe records the outcome.
ProbeCheck(p) ==
  /\ pc[p] = Waiting(p)
  /\ IF dbUp
     THEN /\ wasUnhealthy' = [wasUnhealthy EXCEPT ![p] = ~isHealthy]
          /\ isHealthy' = HealthOnSuccess(isHealthy)
          /\ retryCount' = IF ~isHealthy THEN 0 ELSE retryCount
          /\ pc' = [pc EXCEPT ![p] = "cacheInfo"]
          /\ UNCHANGED hcVars
     ELSE /\ retryCount < offered.failures
          /\ isHealthy' = FALSE
          /\ retryCount' = RetryAfterFailure(retryCount)
          /\ StartContinues(p)
          /\ pc' = [pc EXCEPT ![p] = "idle"]
          /\ UNCHANGED wasUnhealthy
  /\ event' = Probed(p, dbUp)
  /\ UNCHANGED <<cacheFile, isProcessing, dbUp, stored, replayed, nextId, req,
                 dpc, drain, queuedEver, evicted, wcVars, aggVars, fields>>

NothingCachedAlways(count) == TRUE

\* if (cacheInfo.count === 0) return
NothingCached(count) == count = 0

\* processCachedLogsOnReconnect / checkAndProcessPendingCache: getCacheInfo
ProbeCacheInfo(p) ==
  /\ pc[p] = "cacheInfo"
  /\ IF NothingCached(Len(cacheFile))
     THEN FinishProbe(p, isProcessing, NoEvent)
     ELSE /\ pc' = [pc EXCEPT ![p] = "backup"]
          /\ event' = NoEvent
          /\ UNCHANGED <<isHealthy, isProcessing, dpc, drain, wasUnhealthy, hcVars>>
  /\ UNCHANGED <<cacheFile, retryCount, dbUp, stored, replayed, nextId, req,
                 queuedEver, evicted, wcVars, aggVars, fields>>

\* backupCache(), then the call of processCachedLogs up to its first await.
\* A failed copy throws into the caller's catch and no drain is started.
ProbeBackup(p) ==
  /\ pc[p] = "backup"
  /\ \E copied \in IOOutcomes :
       IF copied /\ ~ShouldSkip(isProcessing)
       THEN /\ isProcessing' = TRUE
            /\ dpc' = [dpc EXCEPT ![p] = "read"]
            /\ drain' = [drain EXCEPT ![p] = NoDrain]
            /\ pc' = [pc EXCEPT ![p] = "drain"]
            /\ event' = NoEvent
            /\ UNCHANGED <<isHealthy, wasUnhealthy, hcVars>>
       ELSE FinishProbe(p, isProcessing,
                        IF copied THEN Result(p, NoDrain, "skipped") ELSE NoEvent)
  /\ UNCHANGED <<cacheFile, retryCount, dbUp, stored, replayed, nextId, req,
                 queuedEver, evicted, wcVars, aggVars, fields>>

ReturnWithoutFinally(k, d, how) ==
  IF k \in Probers /\ pc[k] = "drain"
  THEN FinishProbe(k, how = "error", Result(k, d, how))
  ELSE /\ isProcessing' = (how = "error")
       /\ dpc' = [dpc EXCEPT ![k] = "idle"]
       /\ drain' = [drain EXCEPT ![k] = NoDrain]
       /\ pc' = IF k \in Probers THEN [pc EXCEPT ![k] = "idle"] ELSE pc
       /\ event' = Result(k, d, how)
       /\ UNCHANGED <<isHealthy, wasUnhealthy, hcVars>>

\* processCachedLogs returns: finally { this.isProcessing = false }, then the
\* caller's continuation.
Return(k, d, how) ==
  IF k \in Probers /\ pc[k] = "drain"
  THEN FinishProbe(k, FALSE, Result(k, d, how))
  ELSE /\ isProcessing' = FALSE
       /\ dpc' = [dpc EXCEPT ![k] = "idle"]
       /\ drain' = [drain EXCEPT ![k] = NoDrain]
       /\ pc' = IF k \in Probers THEN [pc EXCEPT ![k] = "idle"] ELSE pc
       /\ event' = Result(k, d, how)
       /\ UNCHANGED <<isHealthy, wasUnhealthy, hcVars>>

\* const cachedLogs = await this.readCache()
DrainRead(k) ==
  /\ dpc[k] = "read"
  /\ IF Len(cacheFile) = 0
     THEN Return(k, NoDrain, "empty")
     ELSE /\ drain' = [drain EXCEPT ![k].cachedLogs = cacheFile]
          /\ dpc' = [dpc EXCEPT ![k] = "insert"]
          /\ event' = NoEvent
          /\ UNCHANGED <<isProcessing, isHealthy, pc, wasUnhealthy, hcVars>>
  /\ UNCHANGED <<cacheFile, retryCount, dbUp, stored, replayed, nextId, req,
                 queuedEver, evicted, wcVars, aggVars, fields>>

NextLogNewestFirst(d) == d.cachedLogs[Len(d.cachedLogs) - d.idx]

\* for (let i = 0; ...; i += batchSize) over cachedLogs.slice(i, i +
\* batchSize), for (const logData of batch): the records in file order.
NextLog(d) == d.cachedLogs[d.idx + 1]

\* await insertFunction(originalLog) for the next record of the batch
DrainInsert(k) ==
  /\ dpc[k] = "insert"
  /\ LET d == drain[k]
         log == NextLog(d)
         ok == InsertLogOK(log)
         i == d.idx + 1
         batchEnd == (i % batchSize = 0) \/ i = Len(d.cachedLogs)
     IN /\ replayed' = IF ok THEN replayed \cup {log} ELSE replayed
        /\ drain' = [drain EXCEPT ![k] =
                       [d EXCEPT !.idx = i,
                                 !.processed = IF ok THEN @ + 1 ELSE @,
                                 !.processedLogs = IF ok THEN @ \cup {log} ELSE @,
                                 !.failed = IF ok THEN @ ELSE @ + 1,
                                 !.errors = IF ok THEN @ ELSE Append(@, log.id)]]
        /\ dpc' = [dpc EXCEPT ![k] = IF batchEnd THEN "batchWrite" ELSE "insert"]
  /\ event' = NoEvent
  /\ UNCHANGED <<cacheFile, isProcessing, isHealthy, retryCount, dbUp, stored,
                 nextId, pc, req, queuedEver, evicted, wcVars, aggVars, fields,
                 wasUnhealthy, hcVars>>

RemainingLogsAll(d) == d.cachedLogs

\* const remainingLogs = cachedLogs.filter(not processed)
RemainingLogs(d) == Filter(d.cachedLogs, Range(d.cachedLogs) \ d.processedLogs)

\* await this.writeCache(remainingLogs) after each batch; a rejected write is
\* caught by the outer catch, which returns.
DrainBatchWrite(k) ==
  /\ dpc[k] = "batchWrite"
  /\ \E written \in IOOutcomes :
       LET d == drain[k]
           remaining == RemainingLogs(d)
           content == WriteCacheContent(remaining)
       IN IF ~written
          THEN /\ Return(k, d, "error")
               /\ UNCHANGED <<cacheFile, evicted>>
          ELSE /\ cacheFile' = content
               /\ evicted' = evicted \cup (Range(remaining) \ Range(content))
               /\ IF d.idx < Len(d.cachedLogs)
                  THEN /\ dpc' = [dpc EXCEPT ![k] = "insert"]
                       /\ event' = NoEvent
                       /\ UNCHANGED <<isProcessing, isHealthy, pc, drain,
                                      wasUnhealthy, hcVars>>
                  ELSE IF d.failed = 0
                  THEN /\ dpc' = [dpc EXCEPT ![k] = "clear"]
                       /\ event' = NoEvent
                       /\ UNCHANGED <<isProcessing, isHealthy, pc, drain,
                                      wasUnhealthy, hcVars>>
                  ELSE Return(k, d, "done")
  /\ UNCHANGED <<retryCount, dbUp, stored, replayed, nextId, req, queuedEver,
                 wcVars, aggVars, fields>>

\* if (failed === 0) await this.clearCache(); clearCache swallows a rejected
\* write.  Then processCachedLogs returns { processed, failed, errors }.
DrainClear(k) ==
  /\ dpc[k] = "clear"
  /\ \E written \in IOOutcomes :
       cacheFile' = IF written THEN WriteCacheContent(<<>>) ELSE cacheFile
  /\ Return(k, drain[k], "done")
  /\ UNCHANGED <<retryCount, dbUp, stored, replayed, nextId, req, queuedEver,
                 evicted, wcVars, aggVars, fields>>

----------------------------------------------------------------------------
(* The backend *)

BackendDown ==
  /\ dbUp
  /\ dbUp' = FALSE
  /\ event' = NoEvent
  /\ UNCHANGED <<cacheFile, isProcessing, isHealthy, retryCount, stored, replayed,
                 nextId, pc, req, dpc, drain, queuedEver, evicted, wcVars, aggVars, fields,
                 wasUnhealthy, hcVars>>

BackendUp ==
  /\ ~dbUp
  /\ dbUp' = TRUE
  /\ event' = NoEvent
  /\ UNCHANGED <<cacheFile, isProcessing, isHealthy, retryCount, stored, replayed,
                 nextId, pc, req, dpc, drain, queuedEver, evicted, wcVars, aggVars, fields,
                 wasUnhealthy, hcVars>>

----------------------------------------------------------------------------
(* The system *)

\* The steps of the request handlers CS, the probes PS and the drains they
\* start.
NextOf(CS, PS) ==
  \/ \E c \in CS : CreateLog(c)
  \/ \E c \in CS : CreateLogsBatch(c)
  \/ \E c \in CS : RequestInsert(c)
  \/ \E c \in CS : RequestCacheInfo(c)
  \/ \E c \in CS : AddToCacheRead(c)
  \/ \E c \in CS : AddToCacheWrite(c)
  \/ \E c \in CS : RequestCachedInfo(c)
  \/ ClearCacheRequest
  \/ \E p \in PS : ProbeCheck(p)
  \/ \E p \in PS : ProbeCacheInfo(p)
  \/ \E p \in PS : ProbeBackup(p)
  \/ \E k \in CS \cup PS : DrainRead(k)
  \/ \E k \in CS \cup PS : DrainInsert(k)
  \/ \E k \in CS \cup PS : DrainBatchWrite(k)
  \/ \E k \in CS \cup PS : DrainClear(k)
  \/ BackendDown
  \/ BackendUp

\* The full system: two concurrent request handlers and the periodic probe.
Next == NextOf(Clients, {"tick"})

Spec == Init /\ [][Next]_vars

\* One request handler, the periodic probe and the manual trigger: every
\* caller of processCachedLogs.
NextTriggers == NextOf({"c1"}, Probers)

SpecTriggers == Init /\ [][NextTriggers]_vars

----------------------------------------------------------------------------
(* writeCache on its own: a pure function of the list it is given *)

InitWriteCache ==
  /\ maxCacheSize = EntryBound
  /\ maxFileSize = ByteBound
  /\ offered = [records |-> 0, sizes |-> AnySizes, messages |-> {TRUE},
                ioFails |-> FALSE, failures |-> MaxRetryCount]
  /\ InitCacheWith(<<>>, {FALSE})
  /\ wcLogs \in Lists(MaxLen, AnySizes)
  /\ wcPersisted = <<>>
  /\ wcPhase = "input"

\* await fs.writeFile(this.cacheFile, content) with writeCache's content
WriteCache ==
  /\ wcPhase = "input"
  /\ wcPersisted' = WriteCacheContent(wcLogs)
  /\ wcPhase' = "written"
  /\ UNCHANGED <<wcLogs, cacheVars, fields, aggVars>>

NextWriteCache == WriteCache

SpecWriteCache == InitWriteCache /\ [][NextWriteCache]_vars

----------------------------------------------------------------------------
(* addToCache during an outage, on a queue an earlier run left behind *)

\* The byte bound of this scenario: two records reach it only when both are
\* large.
AppendByteBound == 7

InitAppend ==
  /\ maxCacheSize = AppendEntryBound
  /\ maxFileSize = AppendByteBound
  /\ \E queue \in Lists(AppendEntryBound, {1, 3}) :
       /\ ByteLength(queue) <= AppendByteBound
       /\ offered = [records |-> Len(queue) + MaxBatch + 1, sizes |-> {1, 3},
                     messages |-> {TRUE}, ioFails |-> TRUE, failures |-> MaxRetryCount]
       /\ InitCacheWith(queue, {FALSE})
  /\ InitWriteCacheIdle

NextAppend ==
  \/ CreateLog("c1")
  \/ CreateLogsBatch("c1")
  \/ AddToCacheRead("c1")
  \/ AddToCacheWrite("c1")
  \/ RequestCachedInfo("c1")

SpecAppend == InitAppend /\ [][NextAppend]_vars

\* The steps of the periodic probe and of the drain it starts.
TickStep ==
  \/ ProbeCheck("tick")
  \/ ProbeCacheInfo("tick")
  \/ ProbeBackup("tick")
  \/ DrainRead("tick")
  \/ DrainInsert("tick")
  \/ DrainBatchWrite("tick")
  \/ DrainClear("tick")

----------------------------------------------------------------------------
(* Drains that no append overlaps, on a queue an earlier run left behind *)

\* What writeCache can have left in the file: a list within the byte bound,
\* or the newest half of a list that was within the entry bound.
Persistable(q) ==
  \/ ByteLength(q) <= maxFileSize
  \/ 2 * Len(q) - 1 <= maxCacheSize

InitDrain ==
  /\ maxCacheSize = DrainLen
  /\ maxFileSize = ByteBound
  /\ offered = [records |-> 0, sizes |-> {1, 3}, messages |-> BOOLEAN,
                ioFails |-> TRUE, failures |-> MaxRetryCount]
  /\ \E queue \in QueueLists(DrainLen, {1, 3}, BOOLEAN) :
       /\ Persistable(queue)
       /\ InitCacheWith(queue, BOOLEAN)
  /\ InitWriteCacheIdle

NextDrain ==
  \/ TickStep
  \/ BackendDown
  \/ BackendUp

SpecDrain == InitDrain /\ [][NextDrain]_vars

----------------------------------------------------------------------------
(* startHealthCheck, stopHealthCheck and setHealthCheckInterval on an empty *)
(* queue                                                                    *)

\* if (intervalMs < 5000) throw
MinInterval == 5000

\* Arguments of setHealthCheckInterval.
Intervals == {1000, DefaultInterval, 60000}

\* startHealthCheck() is called and runs up to the await of its initial
\* probe.  One call is in flight at a time, and MaxTimers timers are created.
StartHealthCheck ==
  /\ pc["start"] = "idle"
  /\ nextTimer <= MaxTimers
  /\ pc' = [pc EXCEPT !["start"] = "check"]
  /\ stopReturned' = FALSE
  /\ event' = NoEvent
  /\ UNCHANGED <<cacheFile, isProcessing, isHealthy, retryCount, wasUnhealthy,
                 checkInterval, healthCheckInterval, timers, nextTimer, dbUp,
                 stored, replayed, nextId, req, dpc, drain, queuedEver,
                 evicted, wcVars, aggVars, fields>>

\* if (this.checkInterval) { clearInterval(this.checkInterval);
\*                           this.checkInterval = null }
Cleared(handle, live) == {t \in live : t.id # handle}

StopHealthCheck ==
  /\ timers' = Cleared(checkInterval, timers)
  /\ checkInterval' = NoTimer
  /\ stopReturned' = TRUE
  /\ event' = [type |-> "stopped"]
  /\ UNCHANGED <<cacheFile, isProcessing, isHealthy, retryCount, wasUnhealthy,
                 healthCheckInterval, nextTimer, dbUp, stored, replayed,
                 nextId, pc, req, dpc, drain, queuedEver, evicted, wcVars, aggVars,
                 fields>>

\* setHealthCheckInterval(intervalMs): stopHealthCheck(), then
\* startHealthCheck() is called and not awaited.
SetHealthCheckInterval ==
  \E intervalMs \in Intervals :
    IF intervalMs < MinInterval
    THEN /\ event' = [type |-> "threw", interval |-> intervalMs]
         /\ UNCHANGED <<cacheFile, isProcessing, isHealthy, retryCount,
                        wasUnhealthy, hcVars, dbUp, stored, replayed, nextId,
                        pc, req, dpc, drain, queuedEver, evicted, wcVars, aggVars,
                        fields>>
    ELSE /\ pc["start"] = "idle"
         /\ nextTimer <= MaxTimers
         /\ healthCheckInterval' = intervalMs
         /\ timers' = Cleared(checkInterval, timers)
         /\ checkInterval' = NoTimer
         /\ pc' = [pc EXCEPT !["start"] = "check"]
         /\ stopReturned' = FALSE
         /\ event' = NoEvent
         /\ UNCHANGED <<cacheFile, isProcessing, isHealthy, retryCount,
                        wasUnhealthy, nextTimer, dbUp, stored, replayed,
                        nextId, req, dpc, drain, queuedEver, evicted, wcVars, aggVars,
                        fields>>

\* A timer that is not cleared fires: its callback calls
\* checkDatabaseConnection().
TimerFires ==
  /\ timers # {}
  /\ ProbeCheck("tick")

InitHealthCheckAlone ==
  /\ maxCacheSize = EntryBound
  /\ maxFileSize = ByteBound
  /\ offered = [records |-> 0, sizes |-> {1}, messages |-> {TRUE},
                ioFails |-> FALSE, failures |-> ProbeFailures]
  /\ InitProcess(<<>>, BOOLEAN)
  /\ InitHealthCheck(FALSE)
  /\ InitAggregation
  /\ InitWriteCacheIdle

NextHealthCheck ==
  \/ StartHealthCheck
  \/ ProbeCheck("start")
  \/ ProbeCacheInfo("start")
  \/ TimerFires
  \/ ProbeCacheInfo("tick")
  \/ StopHealthCheck
  \/ SetHealthCheckInterval
  \/ BackendDown
  \/ BackendUp

SpecHealthCheck == InitHealthCheckAlone /\ [][NextHealthCheck]_vars

----------------------------------------------------------------------------
(* StatisticsScheduler: the hourly task *)

\* dayjs(t).startOf("hour" | "day" | "week" | "month"), on a clock of whole
\* hours in local time (no daylight saving), and endOf plus one millisecond.
\* dayjs numbers the days of the week from Sunday = 0 and, in its default
\* locale, starts the week on Sunday.
StartOf(unit, t) ==
  CASE unit = "hour" -> t
    [] unit = "day" -> 24 * DayOf(t)
    [] unit = "week" -> 24 * (DayOf(t) - WeekdayOf(t))
    [] unit = "month" -> 24 * (DayOf(t) - (DayOfMonth(t) - 1))

NextStartOf(unit, t) ==
  CASE unit = "hour" -> t + 1
    [] unit = "day" -> StartOf(unit, t) + 24
    [] unit = "week" -> StartOf(unit, t) + 24 * 7
    [] unit = "month" ->
         StartOf(unit, t) + 24 * DaysInMonth(DateOf(t).year, DateOf(t).month)

\* dayjs(t).week() of the weekOfYear plugin in the default locale
\* (yearStart 1): week 1 is the week that holds January 1, and the last days
\* of December that share their week with January 1 are in week 1 as well.
WeekOfYear(t) ==
  LET d == DateOf(t)
      newYear == HourAt(d.year, 1, 1, 0)
      nextNewYear == HourAt(d.year + 1, 1, 1, 0)
  IN IF d.month = 12 /\ d.date > 25 /\ nextNewYear < NextStartOf("week", t)
     THEN 1
     ELSE ((t - StartOf("week", newYear)) \div (24 * 7)) + 1

\* Characters of a formatted time.
DigitChar == <<"0", "1", "2", "3", "4", "5", "6", "7", "8", "9">>

\* Number.prototype.toString()
RECURSIVE NumberToString(_)
NumberToString(n) ==
  IF n < 10 THEN <<DigitChar[n + 1]>>
  ELSE Append(NumberToString(n \div 10), DigitChar[(n % 10) + 1])

PadStartNone(str, width) == str

\* String.prototype.padStart(width, "0")
RECURSIVE PadStart(_, _)
PadStart(str, width) ==
  IF Len(str) >= width THEN str ELSE PadStart(<<"0">> \o str, width)

\* dayjs format tokens YYYY, MM, DD, HH
Token(n, width) == PadStart(NumberToString(n), width)

\* getTimeRange(statType, targetTime).statTime of LogStatisticsService and of
\* ApiStatisticsService: "YYYYMMDDHH", "YYYYMMDD", YYYY + "W" + week, "YYYYMM"
StatKey(statType, t) ==
  LET d == DateOf(t)
  IN CASE statType = "hour" ->
            Token(d.year, 4) \o Token(d.month, 2) \o Token(d.date, 2)
              \o Token(d.hour, 2)
       [] statType = "day" ->
            Token(d.year, 4) \o Token(d.month, 2) \o Token(d.date, 2)
       [] statType = "week" ->
            Token(d.year, 4) \o <<"W">> \o PadStart(NumberToString(WeekOfYear(t)), 2)
       [] statType = "month" -> Token(d.year, 4) \o Token(d.month, 2)

\* The rule a rollup row is looked up by, without the dimension values:
\* whereConditions.stat_time and .stat_type.
WhereConditions(statType, t) ==
  [stat_time |-> StatKey(statType, t), stat_type |-> statType]

\* getTimeRange(statType, targetTime).statTime of the earlier
\* LogStatisticsService: the start of the period.
StatTime(statType, targetTime) == StartOf(statType, targetTime)

\* The passes of the hourly task, in the order it awaits them.
StatTypes == <<"hour", "day", "week", "month">>

PassAfter(statType) ==
  CASE statType = "hour" -> "day"
    [] statType = "day" -> "week"
    [] statType = "week" -> "month"
    [] statType = "month" -> "idle"

\* const lastHour = now.subtract(1, "hour"): the HOUR pass is given
\* lastHour, the DAY, WEEK and MONTH passes are given now.
TargetOf(statType, now) == IF statType = "hour" THEN now - 1 ELSE now

\* What one pass of the hourly task did.
Pass(statType, now, ok) ==
  [statType |-> statType, statTime |-> StatTime(statType, TargetOf(statType, now)),
   ok |-> ok]

\* cron "0 * * * *": the clock reaches minute 0 of the next hour and the
\* callback runs up to the await of its first pass.
HourlyTick ==
  /\ "hourly" \in cronTasks
  /\ hourly.pc = "idle"
  /\ clock < Origin + MaxHour
  /\ clock' = clock + 1
  /\ hourly' = [pc |-> "hour", now |-> clock + 1, passes |-> <<>>]
  /\ event' = NoEvent
  /\ UNCHANGED <<cacheFile, isProcessing, isHealthy, retryCount, wasUnhealthy,
                 hcVars, dbUp, stored, replayed, nextId, pc, req, dpc, drain,
                 queuedEver, evicted, wcVars, schedVars, rollupVars, fields>>

\* await Promise.all([logStatisticsService.updateStatistics(type, target),
\*                    apiStatisticsService.updateStatistics(type, target)])
\* settles.  updateStatistics rethrows what its queries throw, and the
\* callback's catch ends the tick.
HourlyPass ==
  /\ hourly.pc # "idle"
  /\ \E ok \in BOOLEAN :
       LET done == Append(hourly.passes, Pass(hourly.pc, hourly.now, ok))
           next == IF ok THEN PassAfter(hourly.pc) ELSE "idle"
       IN /\ hourly' = IF next = "idle"
                       THEN NoTick
                       ELSE [hourly EXCEPT !.pc = next, !.passes = done]
          /\ event' = IF next = "idle"
                      THEN [type |-> "tick", now |-> hourly.now, passes |-> done]
                      ELSE NoEvent
  /\ UNCHANGED <<cacheFile, isProcessing, isHealthy, retryCount, wasUnhealthy,
                 hcVars, dbUp, stored, replayed, nextId, pc, req, dpc, drain,
                 queuedEver, evicted, wcVars, clock, schedVars, rollupVars,
                 fields>>

InitHourly ==
  /\ maxCacheSize = EntryBound
  /\ maxFileSize = ByteBound
  /\ offered = [records |-> 0, sizes |-> {1}, messages |-> {TRUE},
                ioFails |-> FALSE, failures |-> MaxRetryCount]
  /\ InitCacheWith(<<>>, {TRUE})
  /\ InitWriteCacheIdle

NextHourly ==
  \/ HourlyTick
  \/ HourlyPass

SpecHourly == InitHourly /\ [][NextHourly]_vars

----------------------------------------------------------------------------
(* getTimeRange on its own: a pure function of the granularity and the     *)
(* target time                                                             *)

\* Target times: every fifth hour from 2024-12-25 00:00 on, across the turn
\* of the year, and 2025-07-04 15:00.
KeyTargets ==
  {HourAt(2024, 12, 25, 0) + 5 * k : k \in 0..KeySamples}
    \cup {HourAt(2025, 7, 4, 15)}

InitKeys ==
  /\ maxCacheSize = EntryBound
  /\ maxFileSize = ByteBound
  /\ offered = [records |-> 0, sizes |-> {1}, messages |-> {TRUE},
                ioFails |-> FALSE, failures |-> MaxRetryCount]
  /\ InitProcess(<<>>, {TRUE})
  /\ InitHealthCheck(TRUE)
  /\ InitWriteCacheIdle
  /\ InitScheduler(TRUE)
  /\ InitRollup
  /\ clock \in KeyTargets

\* const { startTime, endTime, statTime } = this.getTimeRange(statType, now)
\* with the clock's time as target.
GetTimeRange ==
  /\ \E statType \in {"hour", "day", "week", "month"} :
       event' = [type |-> "range", statType |-> statType, target |-> clock,
                 where |-> WhereConditions(statType, clock)]
  /\ UNCHANGED <<cacheFile, isProcessing, isHealthy, retryCount, wasUnhealthy,
                 hcVars, dbUp, stored, replayed, nextId, pc, req, dpc, drain,
                 queuedEver, evicted, wcVars, aggVars, fields>>

NextKeys == GetTimeRange

SpecKeys == InitKeys /\ [][NextKeys]_vars

----------------------------------------------------------------------------
(* The scheduler: start(), stop(), the four cron rules, the initial update *)
(* and getSchedulerStatus()                                                *)

\* The hours the scheduler is followed for.
CronHours == 100

\* The process starts on Saturday 2025-06-28 or on Saturday 2024-12-28, so
\* that a Sunday, a Monday, the first day of a month and the turn of a year
\* follow.
CronStarts == {Origin, HourAt(2024, 12, 28, 0)}
CronClock == UNION {s..(s + CronHours) : s \in CronStarts}

\* node-cron: "0 * * * *" fires at minute 0 of every hour, "0 0 * * *" at
\* midnight, "0 0 * * 1" at midnight on day-of-week 1 (Monday), "0 0 1 * *"
\* at midnight on day-of-month 1.
Matches(rule, t) ==
  CASE rule = "hourly" -> TRUE
    [] rule = "daily" -> DateOf(t).hour = 0
    [] rule = "weekly" -> DateOf(t).hour = 0 /\ WeekdayOf(t) = 1
    [] rule = "monthly" -> DateOf(t).hour = 0 /\ DayOfMonth(t) = 1

\* dayjs(t).add(k, "month"): the same date and hour k months on, the date cut
\* down to the length of that month.
ShiftMonth(t, k) ==
  LET d == DateOf(t)
      n == d.year * 12 + (d.month - 1) + k
      y == n \div 12
      m == (n % 12) + 1
      date == IF d.date < DaysInMonth(y, m) THEN d.date ELSE DaysInMonth(y, m)
  IN HourAt(y, m, date, d.hour)

\* StatType.DAY, StatType.WEEK, StatType.MONTH of the cleanup tasks.
CleanupType(task) ==
  CASE task = "daily" -> "day"
    [] task = "weekly" -> "week"
    [] task = "monthly" -> "month"

CleanupTargetNow(task, now) == now

\* yesterday = dayjs().subtract(1, "day"), lastWeek = dayjs().subtract(1,
\* "week"), lastMonth = dayjs().subtract(1, "month")
CleanupTarget(task, now) ==
  CASE task = "daily" -> now - 24
    [] task = "weekly" -> now - 24 * 7
    [] task = "monthly" -> ShiftMonth(now, -1)

AlreadyRunningNever == FALSE

\* if (this.isRunning) { warn; return; } at the head of start()
AlreadyRunning == isRunning

ScheduledByStartNone == {}

\* this.cronTasks.push(hourlyTask, dailyCleanupTask, weeklyCleanupTask,
\*                     monthlyCleanupTask)
ScheduledByStart == CronRules

\* start(): a second start only warns; the first one schedules the four
\* rules and then calls runInitialUpdate() without awaiting it, which runs up
\* to the await of its first updateStatistics.
SchedulerStart ==
  /\ IF AlreadyRunning
     THEN /\ event' = [type |-> "warned"]
          /\ UNCHANGED <<isRunning, cronTasks, initial>>
     ELSE /\ initial.pc = "idle"
          /\ isRunning' = TRUE
          /\ cronTasks' = ScheduledByStart
          /\ initial' = [pc |-> "hour", passes |-> <<>>]
          /\ event' = NoEvent
  /\ UNCHANGED <<cacheFile, isProcessing, isHealthy, retryCount, wasUnhealthy,
                 hcVars, dbUp, stored, replayed, nextId, pc, req, dpc, drain,
                 queuedEver, evicted, wcVars, clock, hourly, cleanup,
                 rollupVars, fields>>

\* stop(): stops the cron tasks; callbacks that are running go on.
SchedulerStop ==
  /\ IF isRunning
     THEN /\ cronTasks' = {}
          /\ isRunning' = FALSE
          /\ event' = NoEvent
     ELSE /\ event' = [type |-> "warned"]
          /\ UNCHANGED <<isRunning, cronTasks>>
  /\ UNCHANGED <<cacheFile, isProcessing, isHealthy, retryCount, wasUnhealthy,
                 hcVars, dbUp, stored, replayed, nextId, pc, req, dpc, drain,
                 queuedEver, evicted, wcVars, clock, hourly, cleanup, initial,
                 rollupVars, fields>>

\* The clock reaches minute 0 of the next hour: every scheduled rule that
\* matches the instant runs its callback up to its first await.
CronFires ==
  /\ clock + 1 \in CronClock
  /\ hourly.pc = "idle"
  /\ \A task \in CleanupTasks : cleanup[task].pc = "idle"
  /\ clock' = clock + 1
  /\ hourly' = IF "hourly" \in cronTasks
               THEN [pc |-> "hour", now |-> clock + 1, passes |-> <<>>]
               ELSE hourly
  /\ cleanup' = [task \in CleanupTasks |->
                   IF task \in cronTasks /\ Matches(task, clock + 1)
                   THEN [pc |-> "run", now |-> clock + 1]
                   ELSE cleanup[task]]
  /\ event' = NoEvent
  /\ UNCHANGED <<cacheFile, isProcessing, isHealthy, retryCount, wasUnhealthy,
                 hcVars, dbUp, stored, replayed, nextId, pc, req, dpc, drain,
                 queuedEver, evicted, wcVars, isRunning, cronTasks, initial,
                 rollupVars, fields>>

\* The await Promise.all([...updateStatistics(type, target)]) of a cleanup
\* task settles; the task's own catch logs a failure.
CleanupPass(task) ==
  /\ cleanup[task].pc = "run"
  /\ cleanup' = [cleanup EXCEPT ![task] = NoCleanup]
  /\ event' = NoEvent
  /\ UNCHANGED <<cacheFile, isProcessing, isHealthy, retryCount, wasUnhealthy,
                 hcVars, dbUp, stored, replayed, nextId, pc, req, dpc, drain,
                 queuedEver, evicted, wcVars, clock, hourly, isRunning,
                 cronTasks, initial, rollupVars, fields>>

\* runInitialUpdate(): updateAllStatistics() of both services goes through
\* Object.values(StatType) with a try/catch around each updateStatistics, so
\* that the next granularity follows whether or not this one failed; every
\* call takes the time of the call as its target.
InitialPass ==
  /\ initial.pc # "idle"
  /\ LET done == Append(initial.passes, initial.pc)
         next == PassAfter(initial.pc)
     IN /\ initial' = IF next = "idle"
                      THEN NoInitial
                      ELSE [pc |-> next, passes |-> done]
        /\ event' = IF next = "idle"
                    THEN [type |-> "initial", passes |-> done]
                    ELSE NoEvent
  /\ UNCHANGED <<cacheFile, isProcessing, isHealthy, retryCount, wasUnhealthy,
                 hcVars, dbUp, stored, replayed, nextId, pc, req, dpc, drain,
                 queuedEver, evicted, wcVars, clock, hourly, isRunning,
                 cronTasks, cleanup, rollupVars, fields>>

\* getSchedulerStatus(): now.add(1, unit).startOf(unit) for each rule.
GetSchedulerStatus ==
  /\ event' = [type |-> "status",
               isRunning |-> isRunning,
               nextUpdates |->
                 [hourly |-> StartOf("hour", clock + 1),
                  daily |-> StartOf("day", clock + 24),
                  weekly |-> StartOf("week", clock + 24 * 7),
                  monthly |-> StartOf("month", ShiftMonth(clock, 1))]]
  /\ UNCHANGED <<cacheFile, isProcessing, isHealthy, retryCount, wasUnhealthy,
                 hcVars, dbUp, stored, replayed, nextId, pc, req, dpc, drain,
                 queuedEver, evicted, wcVars, aggVars, fields>>

\* The process before index.ts calls statisticsScheduler.start().
InitCron ==
  /\ maxCacheSize = EntryBound
  /\ maxFileSize = ByteBound
  /\ offered = [records |-> 0, sizes |-> {1}, messages |-> {TRUE},
                ioFails |-> FALSE, failures |-> MaxRetryCount]
  /\ InitProcess(<<>>, {TRUE})
  /\ InitHealthCheck(TRUE)
  /\ InitWriteCacheIdle
  /\ InitScheduler(FALSE)
  /\ InitRollup
  /\ clock \in CronStarts

NextCron ==
  \/ SchedulerStart
  \/ SchedulerStop
  \/ CronFires
  \/ HourlyPass
  \/ \E task \in CleanupTasks : CleanupPass(task)
  \/ InitialPass
  \/ GetSchedulerStatus

SpecCron == InitCron /\ [][NextCron]_vars

----------------------------------------------------------------------------
(* LogStatisticsService.updateStatistics on the raw store and the rollup   *)
(* table                                                                   *)

\* The raw records the store holds at a time.
MaxRaw == 2

\* Seconds in an hour: the raw timestamps are followed to the second.
SecondsPerHour == 60 * 60

Levels == {"error", "info"}

\* The hour 2025-07-04 15:00 that the passes are asked for.
RollupHour == HourAt(2025, 7, 4, 15)

\* Raw timestamps: the first and the last second of the hour, and the first
\* second of the next hour.
RawTimes ==
  {SecondsPerHour * RollupHour,
   SecondsPerHour * RollupHour + (SecondsPerHour - 1),
   SecondsPerHour * (RollupHour + 1)}

RollupTypes == {"hour", "day"}

\* startTime: target.startOf(unit).format("YYYY-MM-DD HH:mm:ss")
WindowStart(statType, t) == SecondsPerHour * StartOf(statType, t)

\* endTime: target.endOf(unit).format("YYYY-MM-DD HH:mm:ss"), the last
\* second of the period (endOf is 59:59.999, the format drops the
\* milliseconds).
WindowEnd(statType, t) == SecondsPerHour * NextStartOf(statType, t) - 1

\* WHERE timestamp >= '${startTime}' AND timestamp < '${endTime}'
InWindow(raw, statType, t) ==
  {r \in BagToSet(raw) :
     r.ts >= WindowStart(statType, t) /\ r.ts < WindowEnd(statType, t)}

\* COUNT(*) of the records of a set of kinds.
RECURSIVE CountAll(_, _)
CountAll(raw, kinds) ==
  IF kinds = {} THEN 0
  ELSE LET r == CHOOSE k \in kinds : TRUE
       IN CopiesIn(r, raw) + CountAll(raw, kinds \ {r})

\* GROUP BY log_type, service, level, appid, enterprise_id with COUNT(*)
Grouped(raw, statType, t) ==
  {[level |-> l,
    count |-> CountAll(raw, {r \in InWindow(raw, statType, t) : r.level = l})]
     : l \in {r.level : r \in InWindow(raw, statType, t)}}

\* ORDER BY count DESC: the orders of the groups the query may answer in.
Ordered(groups) ==
  {s \in [1..Cardinality(groups) -> groups] :
     /\ \A i, j \in DOMAIN s : i # j => s[i] # s[j]
     /\ \A i, j \in DOMAIN s : i < j => s[i].count >= s[j].count}

SameKeyTimeOnly(row, where, level) == row.where = where /\ level = level

\* The row matches whereConditions: stat_time, stat_type and the dimension
\* values (row.level || "", the others alike).
SameKey(row, where, level) == row.where = where /\ row.level = level

\* LogStatistics.findOne({ where: whereConditions })
FindOne(rows, where, level) ==
  {r \in BagToSet(rows) : SameKey(r, where, level)}

UpdatedSum(row, count) == [row EXCEPT !.count = @ + count]

\* existingRecord.update({ count: row.count, update_time: new Date() })
Updated(row, count) == [row EXCEPT !.count = count]

InsertedAlone(rows, row) == SetToBag({row})

\* LogStatistics.create({ ...whereConditions, count: row.count })
Inserted(rows, row) == rows (+) SetToBag({row})

\* A record reaches the raw store.
RawInsert ==
  /\ BagCardinality(rawStore) < MaxRaw
  /\ \E ts \in RawTimes, level \in Levels :
       rawStore' = rawStore (+) SetToBag({[ts |-> ts, level |-> level]})
  /\ settled' = {}
  /\ pass' = IF pass.pc \in {"find", "write"}
              THEN [pass EXCEPT !.fresh = FALSE] ELSE pass
  /\ event' = NoEvent
  /\ UNCHANGED <<cacheFile, isProcessing, isHealthy, retryCount, wasUnhealthy,
                 hcVars, dbUp, stored, replayed, nextId, pc, req, dpc, drain,
                 queuedEver, evicted, wcVars, clock, hourly, schedVars,
                 rollup, fields>>

\* TTL toDateTime(timestamp) + INTERVAL 90 DAY: the store drops a record
\* with the oldest timestamp.
RawExpire ==
  /\ \E r \in BagToSet(rawStore) :
       /\ \A o \in BagToSet(rawStore) : r.ts <= o.ts
       /\ rawStore' = rawStore (-) SetToBag({r})
  /\ settled' = {}
  /\ pass' = IF pass.pc \in {"find", "write"}
              THEN [pass EXCEPT !.fresh = FALSE] ELSE pass
  /\ event' = NoEvent
  /\ UNCHANGED <<cacheFile, isProcessing, isHealthy, retryCount, wasUnhealthy,
                 hcVars, dbUp, stored, replayed, nextId, pc, req, dpc, drain,
                 queuedEver, evicted, wcVars, clock, hourly, schedVars,
                 rollup, fields>>

\* updateStatistics(statType, targetTime) up to the await of the query.
StartPass ==
  /\ pass.pc = "idle"
  /\ \E statType \in RollupTypes :
       pass' = [pc |-> "query", statType |-> statType, target |-> RollupHour,
                rows |-> <<>>, found |-> {}, fresh |-> TRUE, seen |-> 0,
                replaced |-> 0]
  /\ event' = NoEvent
  /\ UNCHANGED <<cacheFile, isProcessing, isHealthy, retryCount, wasUnhealthy,
                 hcVars, dbUp, stored, replayed, nextId, pc, req, dpc, drain,
                 queuedEver, evicted, wcVars, clock, hourly, schedVars,
                 rawStore, rollup, settled, fields>>

\* The pass has gone through its rows: what it reports, and what is
\* remembered of it while the raw store stays as the query read it (fresh).
PassDone(p) ==
  [type |-> "pass", statType |-> p.statType, target |-> p.target,
   fresh |-> p.fresh, seen |-> p.seen, replaced |-> p.replaced,
   repeated |-> \E s \in settled :
                  s.statType = p.statType /\ s.target = p.target]

SettledBy(p) ==
  IF p.fresh THEN {[statType |-> p.statType, target |-> p.target]} ELSE {}

\* The query answers with the groups of the window, or throws; the catch
\* logs and rethrows.
PassQuery ==
  /\ pass.pc = "query"
  /\ \/ /\ \E rows \in Ordered(Grouped(rawStore, pass.statType, pass.target)) :
             LET p == [pass EXCEPT !.rows = rows, !.fresh = TRUE]
             IN IF rows = <<>>
                THEN /\ pass' = NoPass
                     /\ event' = PassDone(p)
                     /\ settled' = SettledBy(p)
                ELSE /\ pass' = [p EXCEPT !.pc = "find"]
                     /\ event' = NoEvent
                     /\ UNCHANGED settled
     \/ /\ pass' = NoPass
        /\ event' = [type |-> "threw"]
        /\ settled' = {}
  /\ UNCHANGED <<cacheFile, isProcessing, isHealthy, retryCount, wasUnhealthy,
                 hcVars, dbUp, stored, replayed, nextId, pc, req, dpc, drain,
                 queuedEver, evicted, wcVars, clock, hourly, schedVars,
                 rawStore, rollup, fields>>

\* findOne for the first row that is left answers.
PassFind ==
  /\ pass.pc = "find"
  /\ pass' = [pass EXCEPT
                !.pc = "write",
                !.found = FindOne(rollup,
                                  WhereConditions(pass.statType, pass.target),
                                  Head(pass.rows).level)]
  /\ event' = NoEvent
  /\ UNCHANGED <<cacheFile, isProcessing, isHealthy, retryCount, wasUnhealthy,
                 hcVars, dbUp, stored, replayed, nextId, pc, req, dpc, drain,
                 queuedEver, evicted, wcVars, clock, hourly, schedVars,
                 rawStore, rollup, settled, fields>>

\* The row is updated or created, and the loop goes on to the next row or
\* ends; or the statement throws (create does on a key that the unique
\* index unique_stat_base already holds), and the catch logs and rethrows.
PassWrite ==
  /\ pass.pc = "write"
  /\ LET row == Head(pass.rows)
         where == WhereConditions(pass.statType, pass.target)
         existing == CHOOSE r \in pass.found : TRUE
         created == [where |-> where, level |-> row.level,
                     count |-> row.count]
         written == IF pass.found # {}
                    THEN Inserted(rollup (-) SetToBag({existing}),
                                  Updated(existing, row.count))
                    ELSE Inserted(rollup, created)
         p == [pass EXCEPT
                 !.rows = Tail(pass.rows), !.found = {}, !.seen = @ + 1,
                 !.replaced = IF pass.found # {} /\ existing.count # row.count
                              THEN @ + 1 ELSE @]
     IN \/ /\ pass.found # {} \/ FindOne(rollup, where, row.level) = {}
           /\ rollup' = written
           /\ IF p.rows = <<>>
              THEN /\ pass' = NoPass
                   /\ event' = PassDone(p)
                   /\ settled' = SettledBy(p)
              ELSE /\ pass' = [p EXCEPT !.pc = "find"]
                   /\ event' = NoEvent
                   /\ UNCHANGED settled
        \/ /\ pass' = NoPass
           /\ event' = [type |-> "threw"]
           /\ settled' = {}
           /\ UNCHANGED rollup
  /\ UNCHANGED <<cacheFile, isProcessing, isHealthy, retryCount, wasUnhealthy,
                 hcVars, dbUp, stored, replayed, nextId, pc, req, dpc, drain,
                 queuedEver, evicted, wcVars, clock, hourly, schedVars,
                 rawStore, fields>>

\* Empty stores on a started process; the clock is past the hour.
InitRollupPasses ==
  /\ maxCacheSize = EntryBound
  /\ maxFileSize = ByteBound
  /\ offered = [records |-> 0, sizes |-> {1}, messages |-> {TRUE},
                ioFails |-> FALSE, failures |-> MaxRetryCount]
  /\ InitProcess(<<>>, {TRUE})
  /\ InitHealthCheck(TRUE)
  /\ InitWriteCacheIdle
  /\ InitScheduler(TRUE)
  /\ InitRollup
  /\ clock = RollupHour + 1

NextRollup ==
  \/ RawInsert
  \/ RawExpire
  \/ StartPass
  \/ PassQuery
  \/ PassFind
  \/ PassWrite

SpecRollup == InitRollupPasses /\ [][NextRollup]_vars

----------------------------------------------------------------------------
(* A request handler beside the first drain after a restart *)

\* The process starts with the backend reachable on a queue of records that
\* an earlier run left behind; one more record is submitted.
InitOverlap ==
  /\ maxCacheSize = OutageRecords
  /\ maxFileSize = BracketBytes + OutageRecords
  /\ offered = [records |-> OutageRecords, sizes |-> {1}, messages |-> {TRUE},
                ioFails |-> FALSE, failures |-> MaxRetryCount]
  /\ InitCacheWith(RecordsOf([i \in 1..(OutageRecords - 1) |-> 1]), {TRUE})
  /\ InitWriteCacheIdle

NextOverlap == NextOf({"c1"}, {"tick"})

SpecOverlap == InitOverlap /\ [][NextOverlap]_vars

----------------------------------------------------------------------------
(* One outage and the recovery from it *)

\* OutageRecords records fit both bounds of the queue.
InitOutage ==
  /\ maxCacheSize = OutageRecords
  /\ maxFileSize = BracketBytes + OutageRecords
  /\ offered = [records |-> OutageRecords, sizes |-> {1}, messages |-> {TRUE},
                ioFails |-> FALSE, failures |-> MaxRetryCount]
  /\ InitCacheWith(<<>>, {FALSE})
  /\ InitWriteCacheIdle

\* Producers submit while the backend is down.
OutageSubmit ==
  /\ ~dbUp
  /\ CreateLog("c1") \/ CreateLogsBatch("c1")

\* The backend comes back once the submissions have been answered.
OutageEnds ==
  /\ pc["c1"] = "idle"
  /\ BackendUp

\* The manual trigger once an operator has called it: the awaits of its
\* probe and of its drain.
ManualStep ==
  \/ ProbeCacheInfo("manual")
  \/ ProbeBackup("manual")
  \/ DrainRead("manual")
  \/ DrainInsert("manual")
  \/ DrainBatchWrite("manual")
  \/ DrainClear("manual")

NextOutage ==
  \/ OutageSubmit
  \/ AddToCacheRead("c1")
  \/ AddToCacheWrite("c1")
  \/ RequestCachedInfo("c1")
  \/ OutageEnds
  \/ TickStep
  \/ ProbeCheck("manual")
  \/ ManualStep

\* startHealthCheck's setInterval keeps firing the probe, and every await of
\* a probe and of its drain settles.  Nothing makes an operator call the
\* manual trigger.
SpecOutage ==
  InitOutage /\ [][NextOutage]_vars /\ WF_vars(TickStep) /\ WF_vars(ManualStep)

----------------------------------------------------------------------------
(* The process starts while the backend is unavailable *)

\* The two bootstraps of the repository: the server bootstrap, which starts
\* the health check only when initClickHouse() answered a client, and
\* startServer of index.ts, which starts it whatever initClickHouse answered.
Bootstraps == {"server", "index"}

\* Whether the bootstrap calls startHealthCheck() after initClickHouse()
\* answered dbClient (null when the backend could not be reached).
StartsHealthCheck(entry, dbClient) == entry = "index" \/ dbClient

\* The bootstrap up to the await of startHealthCheck()'s initial probe, or
\* past it when it does not call startHealthCheck().
Bootstrap ==
  /\ pc["start"] = "boot"
  /\ \E entry \in Bootstraps :
       pc' = [pc EXCEPT !["start"] =
                IF StartsHealthCheck(entry, dbUp) THEN "check" ELSE "idle"]
  /\ event' = NoEvent
  /\ UNCHANGED <<cacheFile, isProcessing, isHealthy, retryCount, wasUnhealthy,
                 hcVars, dbUp, stored, replayed, nextId, req, dpc, drain,
                 queuedEver, evicted, wcVars, aggVars, fields>>

\* The server listens once the bootstrap is through; producers submit while
\* the backend is down.
BootSubmit == pc["start"] = "idle" /\ OutageSubmit

\* The timer's probe and the drain it starts.
TimerStep ==
  \/ TimerFires
  \/ ProbeCacheInfo("tick")
  \/ ProbeBackup("tick")
  \/ DrainRead("tick")
  \/ DrainInsert("tick")
  \/ DrainBatchWrite("tick")
  \/ DrainClear("tick")

\* The initial probe that startHealthCheck() awaits.
InitialProbeStep ==
  \/ ProbeCheck("start")
  \/ ProbeCacheInfo("start")

\* The awaits of a request handler that queues its records.
QueueingStep ==
  \/ AddToCacheRead("c1")
  \/ AddToCacheWrite("c1")
  \/ RequestCachedInfo("c1")

\* The process is about to run its bootstrap; the backend is unavailable.
InitBoot ==
  /\ maxCacheSize = OutageRecords
  /\ maxFileSize = BracketBytes + OutageRecords
  /\ offered = [records |-> MaxBatch, sizes |-> {1}, messages |-> {TRUE},
                ioFails |-> FALSE, failures |-> MaxRetryCount + 1]
  /\ cacheFile = <<>>
  /\ isProcessing = FALSE
  /\ isHealthy = FALSE
  /\ retryCount = 0
  /\ wasUnhealthy = [p \in Probers |-> FALSE]
  /\ dbUp = FALSE
  /\ stored = {}
  /\ replayed = {}
  /\ nextId = 1
  /\ pc = [t \in Callers |-> IF t = "start" THEN "boot" ELSE "idle"]
  /\ req = [c \in Clients |-> NoRequest]
  /\ dpc = [k \in Callers |-> "idle"]
  /\ drain = [k \in Callers |-> NoDrain]
  /\ queuedEver = {}
  /\ evicted = {}
  /\ event = NoEvent
  /\ InitHealthCheck(FALSE)
  /\ InitAggregation
  /\ InitWriteCacheIdle

NextBoot ==
  \/ Bootstrap
  \/ InitialProbeStep
  \/ BootSubmit
  \/ QueueingStep
  \/ OutageEnds
  \/ TimerStep

\* Every await of the bootstrap, of a probe, of a drain and of a request
\* handler settles, and a timer that is set keeps firing.
SpecBoot ==
  /\ InitBoot
  /\ [][NextBoot]_vars
  /\ WF_vars(Bootstrap)
  /\ WF_vars(InitialProbeStep)
  /\ WF_vars(QueueingStep)
  /\ WF_vars(TimerStep)

----------------------------------------------------------------------------
(* Properties of the full system *)

\* The records of the queue and of the backend.
Queue == Range(cacheFile)
Backend == stored \cup replayed

\* Some processCachedLogs call is past its entry and has not returned.
Draining == {k \in Callers : dpc[k] # "idle"}

\* The response of createLog to a record that passed validation.
CreateLogResponded ==
  /\ event.type = "response"
  /\ event.kind = "single"
  /\ event.logs # <<>>

\* C1: no accepted record is lost: a record some addToCache has persisted is
\* in the queue, or a drain has written it to the backend, or a capacity
\* bound or the clear request removed it.  This holds in every state, so in
\* particular when a drain that overlapped an append has returned.
NoAcceptedRecordLost ==
  \A r \in queuedEver : r \in Queue \/ r \in replayed \/ r \in evicted

\* C3: the persisted queue never holds more than maxCacheSize entries.
QueueWithinEntryBound == Len(cacheFile) <= maxCacheSize

\* An append has just gone over the entry bound and was trimmed to it.
EntryBoundReached ==
  /\ event.type = "append"
  /\ Len(event.existing) > maxCacheSize
  /\ Len(cacheFile) = maxCacheSize

\* C8: a record createLog wrote directly to the backend was never appended to
\* the queue, and createLog answers "stored" whenever it saw the backend
\* healthy and its direct write succeeded.
DirectWriteNotQueued ==
  /\ \A r \in stored : r.kind = "single" => r \notin queuedEver
  /\ (CreateLogResponded /\ ~event.unhealthy /\ ~event.insertFailed)
       => /\ event.resp = "stored"
          /\ Range(event.logs) \subseteq stored
          /\ Range(event.logs) \cap (queuedEver \cup Queue) = {}

\* createLog has just answered "stored" after a direct write.
DirectWriteAnswered ==
  /\ CreateLogResponded
  /\ ~event.unhealthy
  /\ ~event.insertFailed
  /\ event.resp = "stored"
  /\ Range(event.logs) \subseteq stored

\* C10: when createLog saw the backend healthy and its direct write threw, it
\* answers "cached" with the record appended to the queue, or "error"; it
\* answers "error" only when the direct write and the append both failed, and
\* then the record is neither in the backend nor in the queue.
FallbackOnFailedWrite ==
  (CreateLogResponded /\ ~event.unhealthy) =>
     LET r == event.logs[1]
     IN /\ event.insertFailed =>
             event.resp \in {"cached", "error"} /\ r \notin stored
        /\ event.resp = "cached" => event.insertFailed /\ r \in queuedEver
        /\ event.resp = "error" =>
             /\ event.insertFailed
             /\ r \notin Backend
             /\ r \notin queuedEver
             /\ r \notin Queue

\* createLog has just answered "cached" after its direct write threw.
FallbackAnswered ==
  /\ CreateLogResponded
  /\ ~event.unhealthy
  /\ event.insertFailed
  /\ event.resp = "cached"
  /\ event.logs[1] \in queuedEver

\* C11: a record with an empty message, submitted alone or as an element of
\* a batch, is never appended to the queue and never written to the backend.
InvalidNeverAccepted ==
  \A r \in queuedEver \cup Queue \cup Backend : r.message

\* C13: a queued record whose writeFn call always fails (its message is
\* empty) stays in the persisted queue: it leaves only through capacity
\* trimming or an explicit clear.
PoisonRecordStays ==
  \A r \in queuedEver : ~r.message => (r \in Queue \/ r \in evicted)

\* A handler has just answered for records it wrote directly.
DirectWriteResponded ==
  /\ event.type = "response"
  /\ event.logs # <<>>
  /\ ~event.unhealthy
  /\ ~event.insertFailed

\* The answer after a direct write is "stored".
AnsweredBeforeDrain == DirectWriteResponded => event.resp = "stored"

\* The step that answers starts a drain exactly when the queue is not
\* empty, the state is healthy and no drain is running, that drain is
\* still at its entry when the answer is sent, and a drain an earlier
\* request of the handler started is not waited for either; and the return
\* of a drain a handler started changes no handler and answers no request.
DetachedTriggerStep ==
  /\ \A c \in Clients :
       (pc[c] = "cacheInfo" /\ pc'[c] = "idle") =>
          /\ event'.type = "response" /\ event'.resp = "stored"
          /\ IF cacheFile # <<>> /\ isHealthy /\ ~isProcessing
             THEN dpc'[c] = "read" /\ drain'[c] = NoDrain
             ELSE dpc'[c] = dpc[c] /\ drain'[c] = drain[c]
  /\ (event'.type = "result" /\ event'.caller \in Clients)
       => UNCHANGED <<pc, req>>

\* C14: after a successful direct write with a non-empty queue the write
\* path starts a reconciliation attempt and does not wait for it: the answer
\* is "stored" whatever the drain does, and no result or error of that drain
\* reaches the caller.
DetachedTrigger == []AnsweredBeforeDrain /\ [][DetachedTriggerStep]_vars

\* A handler has answered "stored" and the drain it started is at its entry.
AnsweredWithDrainStarted ==
  /\ DirectWriteResponded
  /\ event.resp = "stored"
  /\ dpc[event.client] = "read"
  /\ cacheFile # <<>>

----------------------------------------------------------------------------
(* Properties of a write made while the backend is seen unhealthy *)

\* A handler that read isHealthy false has just answered for its records.
UnhealthyResponded ==
  /\ event.type = "response"
  /\ event.unhealthy
  /\ event.logs # <<>>

\* C9 as stated: a write made while the backend is seen unhealthy attempts no
\* backend write and, once its append went through, answers "cached" with
\* the record in the persisted queue when the call returns, unless a
\* capacity bound or the clear request removed it.
CachedRecordQueuedAtReturn ==
  (UnhealthyResponded /\ event.resp # "error") =>
     /\ event.resp = "cached"
     /\ \A r \in Range(event.logs) : r \notin stored /\ (r \in Queue \/ r \in evicted)

\* C9 amended: a write made while the backend is seen unhealthy attempts no
\* direct backend write; when its append completes the record is in the
\* persisted queue unless a capacity bound dropped it, and not yet in the
\* backend; the call answers "cached" when the append went through and
\* "error" when it did not, and then the record was never queued.  By the
\* time the call returns a drain may already have moved the record on.
UnhealthyWriteIsQueued ==
  /\ (event.type = "append" /\ event.unhealthy)
       => \A r \in Range(event.logs) :
            (r \in Queue \/ r \in evicted) /\ r \notin Backend
  /\ UnhealthyResponded
       => /\ event.resp \in {"cached", "error"}
          /\ \A r \in Range(event.logs) :
               /\ r \notin stored
               /\ event.resp = "cached" => r \in queuedEver
               /\ event.resp = "error" => r \notin queuedEver

\* A write seen unhealthy has just answered "cached" with its record queued.
UnhealthyWriteAnswered ==
  /\ UnhealthyResponded
  /\ event.resp = "cached"
  /\ Range(event.logs) \subseteq Queue

----------------------------------------------------------------------------
(* Properties of the probe *)

\* The probe p is inside its reconciliation hook.
InHook(p) == pc[p] \in {"cacheInfo", "backup", "drain"}

\* C15 as stated: on a probe that observed the unhealthy-to-healthy
\* transition, isHealthy still reports false while the recovery drain runs.
RecoveryBeforeHealthy ==
  \A p \in Probers : (wasUnhealthy[p] /\ pc[p] = "drain") => ~isHealthy

\* C15 amended: a probe that observes the transition sets isHealthy to true
\* and retryCount to 0 before it invokes processCachedLogsOnReconnect, so
\* isHealthy already reports true while the recovery drain of the periodic
\* probe runs.
HealthyBeforeRecovery ==
  \A p \in Probers : (wasUnhealthy[p] /\ InHook(p)) => isHealthy

\* The recovery drain of a probe that observed the transition is running.
RecoveryDrainRunning ==
  /\ wasUnhealthy["tick"]
  /\ pc["tick"] = "drain"
  /\ dpc["tick"] = "insert"
  /\ isHealthy

\* A successful probe enters its hook by the recovery path exactly when the
\* state was unhealthy; the hook goes on to backupCache and processCachedLogs
\* when the queue is not empty, and otherwise returns without a writeFn
\* call or a write of the queue; a probe's drain starts only after backupCache.
ProbeHookStep ==
  \A p \in Probers :
     /\ (pc[p] = "idle" /\ pc'[p] = "cacheInfo")
          => wasUnhealthy'[p] = ~isHealthy /\ dbUp
     /\ (pc[p] = "cacheInfo" /\ pc'[p] # "cacheInfo")
          => IF cacheFile # <<>>
             THEN pc'[p] = "backup"
             ELSE pc'[p] # "drain" /\ UNCHANGED <<cacheFile, replayed>>
     /\ (pc[p] # "drain" /\ pc'[p] = "drain")
          => pc[p] = "backup" /\ dpc'[p] = "read"

\* C16: every successful probe starts a reconciliation attempt when the
\* queue is not empty, through the recovery path when the state was
\* unhealthy and through the steady-state hook when it was healthy; with an
\* empty queue neither path calls writeFn or rewrites the queue.
ProbeStartsReconciliation == [][ProbeHookStep]_vars

\* A probe that found the state already healthy has started a drain.
SteadyStateDrainStarted ==
  /\ ~wasUnhealthy["tick"]
  /\ pc["tick"] = "drain"
  /\ dpc["tick"] = "read"

\* What the step of a probe whose database.healthCheck() has just settled
\* does: a failed one adds one to retryCount and leaves isHealthy false, a
\* successful one leaves isHealthy true whatever retryCount was, and the
\* periodic one leaves the timers and the interval as they were.
ProbeOutcomeStep ==
  event'.type = "probe" =>
    /\ IF event'.success
       THEN isHealthy'
       ELSE retryCount' = retryCount + 1 /\ ~isHealthy'
    /\ event'.before = retryCount
    /\ event'.prober = "tick" => UNCHANGED hcVars

\* While a timer is live the periodic probe can run, whatever retryCount is
\* (up to the ProbeFailures failures the environment offers).
ProbingContinues ==
  (timers # {} /\ pc["tick"] = "idle" /\ (dbUp \/ retryCount < offered.failures))
    => ENABLED TimerFires

HealthCheckStops ==
  /\ stopReturned => timers = {}
  /\ Cardinality(timers) <= 1

----------------------------------------------------------------------------
(* Properties of the hourly statistics task *)

\* The period of the granularity statType that starts at start contains t.
Contains(statType, start, t) ==
  /\ start <= t
  /\ StartOf(statType, start) = start
  /\ \A u \in start..t : StartOf(statType, u) = start

\* The pass p of the tick at time now has the target the granularity calls
\* for: the hour that closed at now, or the day, week, month now lies in.
RightTarget(p, now) ==
  IF p.statType = "hour"
  THEN p.statTime = now - 1
  ELSE Contains(p.statType, p.statTime, now)

\* Every pass an hourly tick has made has the target of its granularity,
\* and the passes are made in the order HOUR, DAY, WEEK, MONTH.
PassesOnTarget ==
  event.type = "tick" =>
    \A i \in 1..Len(event.passes) :
       /\ event.passes[i].statType = StatTypes[i]
       /\ RightTarget(event.passes[i], event.now)

\* C20: each hourly tick performs four aggregation passes: HOUR for the
\* hour that just closed, and DAY, WEEK and MONTH for the periods that
\* contain the tick time.
HourlyTickFourPasses ==
  event.type = "tick" => Len(event.passes) = 4 /\ PassesOnTarget

\* C21: the four passes of an hourly tick are independent: when one pass
\* fails, the remaining passes of the same tick are still attempted.
FailedPassLeavesOthers ==
  (event.type = "tick" /\ \E i \in 1..Len(event.passes) : ~event.passes[i].ok)
    => {event.passes[i].statType : i \in 1..Len(event.passes)}
         = {"hour", "day", "week", "month"}

\* A tick none of whose passes threw has made the four passes.
QuietTickFourPasses ==
  (event.type = "tick" /\ \A i \in 1..Len(event.passes) : event.passes[i].ok)
    => Len(event.passes) = 4 /\ PassesOnTarget

----------------------------------------------------------------------------
(* Properties of getTimeRange *)

IsDigits(str) == \A i \in 1..Len(str) : \E n \in 1..10 : DigitChar[n] = str[i]

\* The number a string of digits reads as.
RECURSIVE ValueOf(_)
ValueOf(str) ==
  IF str = <<>> THEN 0
  ELSE 10 * ValueOf(SubSeq(str, 1, Len(str) - 1))
         + (CHOOSE n \in 0..9 : DigitChar[n + 1] = str[Len(str)])

\* The key k reads as the fields of the date d, two digits each after the
\* four of the year.
ReadsAs(k, parts) ==
  /\ Len(k) = 4 + 2 * (Len(parts) - 1)
  /\ IsDigits(k)
  /\ ValueOf(SubSeq(k, 1, 4)) = parts[1]
  /\ \A i \in 2..Len(parts) :
       ValueOf(SubSeq(k, 2 * i + 1, 2 * i + 2)) = parts[i]

\* The keys of 2025-07-04 15:00.
ExampleKey(statType) ==
  CASE statType = "hour" -> <<"2", "0", "2", "5", "0", "7", "0", "4", "1", "5">>
    [] statType = "day" -> <<"2", "0", "2", "5", "0", "7", "0", "4">>
    [] statType = "week" -> <<"2", "0", "2", "5", "W", "2", "7">>
    [] statType = "month" -> <<"2", "0", "2", "5", "0", "7">>

\* C27: for every target time the time-bucket key has the format of its
\* granularity: the 10 digits YYYYMMDDHH for an hour, the 8 digits YYYYMMDD
\* for a day, YYYY, "W" and a two-digit week number for a week, the 6 digits
\* YYYYMM for a month (2025070415, 20250704, 2025W27, 202507 for
\* 2025-07-04 15:xx), and the granularity stored with the key is the one
\* the pass was run for.
KeysMatchFormat ==
  event.type = "range" =>
    LET k == event.where.stat_time
        d == DateOf(event.target)
    IN /\ event.where.stat_type = event.statType
       /\ CASE event.statType = "hour" ->
                 ReadsAs(k, <<d.year, d.month, d.date, d.hour>>)
            [] event.statType = "day" -> ReadsAs(k, <<d.year, d.month, d.date>>)
            [] event.statType = "month" -> ReadsAs(k, <<d.year, d.month>>)
            [] event.statType = "week" ->
                 /\ Len(k) = 7
                 /\ ReadsAs(SubSeq(k, 1, 4), <<d.year>>)
                 /\ k[5] = "W"
                 /\ IsDigits(SubSeq(k, 6, 7))
                 /\ ValueOf(SubSeq(k, 6, 7)) \in 1..53
       /\ event.target = HourAt(2025, 7, 4, 15) => k = ExampleKey(event.statType)

\* The week key of a target time in the first weeks of a year was formatted.
EarlyWeekKeyed ==
  /\ event.type = "range"
  /\ event.statType = "week"
  /\ DateOf(event.target).month = 1
  /\ event.where.stat_time[6] = "0"

----------------------------------------------------------------------------
(* Properties of processCachedLogs and of its callers *)

\* The caller k enters processCachedLogs on a queue that holds records.
DrainStarts(k) ==
  /\ dpc[k] # "read"
  /\ dpc'[k] = "read"
  /\ cacheFile # <<>>

\* A step in which a caller enters processCachedLogs is the step that
\* follows its backupCache().
BackupThenDrainStep == \A k \in Callers : DrainStarts(k) => pc[k] = "backup"

\* C18: every drain that can remove records is preceded by a backupCache()
\* snapshot of the queue, whichever trigger started it: the periodic probe,
\* the recovery, the trigger after a direct write, the manual trigger.
BackupPrecedesDrain == [][BackupThenDrainStep]_vars

----------------------------------------------------------------------------
(* Properties of processCachedLogs under every caller *)

\* At most one drain is past the entry of processCachedLogs, and a call that
\* was skipped returned { processed: 0, failed: 0, errors: [] }.
OneDrainAtATime ==
  /\ Cardinality(Draining) <= 1
  /\ Draining # {} => isProcessing
  /\ (event.type = "result" /\ event.how = "skipped")
       => event.processed = 0 /\ event.failed = 0 /\ event.errors = <<>>

\* A call made while another drain is in progress starts nothing: the step
\* that skips leaves the queue, the backend, the flag and every drain alone,
\* and no idle caller enters a drain while the flag is set.
SkipStep ==
  /\ (event'.type = "result" /\ event'.how = "skipped")
       => /\ isProcessing
          /\ UNCHANGED <<cacheFile, stored, replayed, isProcessing, dpc>>
  /\ \A k \in Callers : (isProcessing /\ dpc[k] = "idle") => dpc'[k] = "idle"

\* C7: processCachedLogs is single-flight: a call made while another is in
\* progress returns { 0, 0, [] } at once, calls writeFn for no record and
\* neither reads nor changes the queue, whichever caller made it.
SingleFlight == []OneDrainAtATime /\ [][SkipStep]_vars

\* A call was just skipped while another caller's drain is in progress.
SkippedWhileDraining ==
  /\ event.type = "result"
  /\ event.how = "skipped"
  /\ Draining # {}
  /\ event.caller \notin Draining

----------------------------------------------------------------------------
(* Properties of writeCache *)

\* C5: the list writeCache persists serializes to at most maxFileSize bytes,
\* whatever list it was given.
FileWithinByteBound ==
  wcPhase = "written" => ByteLength(wcPersisted) <= maxFileSize

\* C6: when the list given to writeCache serializes to more than maxFileSize
\* bytes, exactly its oldest half, floor(n/2) entries, is dropped and its
\* newest half, the other n - floor(n/2) entries, is persisted in order, for
\* every length n >= 1 (one entry of an odd n more is kept than dropped, and
\* for n = 1 the entry is kept).
NewestHalfPersisted ==
  (wcPhase = "written" /\ ByteLength(wcLogs) > maxFileSize) =>
     LET n == Len(wcLogs)
         dropped == n \div 2
     IN /\ n >= 1
        /\ Len(wcPersisted) = n - dropped
        /\ \A i \in 1..(n - dropped) : wcPersisted[i] = wcLogs[dropped + i]

\* writeCache has halved a list of odd length.
OddListHalved ==
  /\ wcPhase = "written"
  /\ ByteLength(wcLogs) > maxFileSize
  /\ Len(wcLogs) = 3
  /\ wcPersisted = <<wcLogs[2], wcLogs[3]>>

----------------------------------------------------------------------------
(* Properties of addToCache *)

\* The last n elements of s, in order.
LastN(s, n) == [i \in 1..n |-> s[Len(s) - n + i]]

\* C4: when addToCache makes the queue longer than maxCacheSize, exactly the
\* oldest (length - maxCacheSize) entries are removed and the newest
\* maxCacheSize are retained in their order: that list is what addToCache
\* hands to writeCache, and it is the persisted queue unless the byte bound
\* halves it.
OldestEntriesTrimmed ==
  (event.type = "append" /\ Len(event.existing) > maxCacheSize) =>
     LET newest == LastN(event.existing, maxCacheSize)
     IN /\ event.handed = newest
        /\ ByteLength(newest) <= maxFileSize => cacheFile = newest

\* An append has just removed more than one oldest entry.
SeveralEntriesTrimmed ==
  /\ event.type = "append"
  /\ Len(event.existing) >= maxCacheSize + 2
  /\ cacheFile = LastN(event.existing, maxCacheSize)

----------------------------------------------------------------------------
(* Properties of one outage and the recovery from it *)

\* Every record queued during the outage is in the backend and the queue is
\* empty.
OutageDrained ==
  /\ cacheFile = <<>>
  /\ queuedEver \subseteq replayed
  /\ isHealthy

\* A drain whose every writeFn call succeeded returned processed = N and
\* failed = 0 for the N records it read.
DrainedAll ==
  (event.type = "result" /\ event.how = "done")
     => event.processed = event.total /\ event.failed = 0

\* C2: after an outage in which at most maxCacheSize records were submitted
\* and no byte trimming occurred, once the backend is back eventually every
\* one of those records has been written to the backend and the queue is
\* empty; and the drain over the N queued records returns processed = N,
\* failed = 0.
OutageRecovery == (dbUp ~> OutageDrained) /\ []DrainedAll

\* The probe's drain has just returned after writing all OutageRecords
\* records of the outage.
OutageRecovered ==
  /\ event.type = "result"
  /\ event.how = "done"
  /\ event.processed = OutageRecords
  /\ Cardinality(replayed) = OutageRecords
  /\ cacheFile = <<>>

----------------------------------------------------------------------------
(* Properties of a drain that no append overlaps *)

\* A drain in which some writeFn call threw has just returned.
DrainFailedSome ==
  /\ event.type = "result"
  /\ event.how \in {"done", "error"}
  /\ event.failed > 0

\* The records of the drain's snapshot that its result lists as failing, in
\* the order of the snapshot.
FailingOf(e) ==
  Filter(e.snapshot, {r \in Range(e.snapshot) : r.id \in Range(e.errors)})

\* C12 as stated: when some writeFn calls threw during a drain, the result
\* lists one error per failing record and the persisted queue is exactly
\* the failing records in their original order.
FailingRecordsRemain ==
  DrainFailedSome =>
     /\ Len(event.errors) = event.failed
     /\ cacheFile = FailingOf(event)

\* C12 amended: when some writeFn calls threw during a drain whose queue
\* writes all went through, the result lists one error per failing record,
\* in queue order, and the persisted queue is exactly the failing records in
\* their original order, or their newest half when they exceed the byte
\* bound; when a queue write threw, the result carries that one error only.
FailingRecordsKept ==
  DrainFailedSome =>
     IF event.how = "error"
     THEN event.errors = <<QueueIOError>>
     ELSE LET failing == FailingOf(event)
          IN /\ Len(event.errors) = event.failed
             /\ event.errors = [i \in 1..Len(failing) |-> failing[i].id]
             /\ event.processed + event.failed = Len(event.snapshot)
             /\ cacheFile = IF ByteLength(failing) <= maxFileSize
                            THEN failing
                            ELSE Slice(failing, Len(failing) \div 2)

\* A drain of three records has returned with some written and two kept.
SomeFailedSomeWritten ==
  /\ DrainFailedSome
  /\ event.how = "done"
  /\ event.processed = 1
  /\ event.failed = 2
  /\ cacheFile = FailingOf(event)

----------------------------------------------------------------------------
(* The scheduler's boundary tasks, startup and status *)

\* C22: when a daily, weekly or monthly cleanup task fires, the instant is the
\* start of a day, week or month, and the period the task recomputes is the
\* one that closed at that instant; the weekly task fires at the instant the
\* WEEK window begins.
BoundaryFinalization ==
  \A task \in CleanupTasks :
    cleanup[task].pc = "run" =>
      LET now == cleanup[task].now
          unit == CleanupType(task)
      IN /\ StartOf(unit, now) = now
         /\ NextStartOf(unit, CleanupTarget(task, now)) = now

\* C23: while the startup recompute runs no cron rule is scheduled and no
\* hourly or boundary pass is in progress.
StartupBeforeCron ==
  initial.pc # "idle" =>
    /\ cronTasks = {}
    /\ hourly.pc = "idle"
    /\ \A task \in CleanupTasks : cleanup[task].pc = "idle"

StartStep ==
  (~isRunning /\ isRunning') =>
    /\ cronTasks' = CronRules
    /\ initial.pc = "idle"
    /\ initial' = [pc |-> "hour", passes |-> <<>>]

InitialStep ==
  (initial.pc # "idle" /\ initial'.pc = "idle") =>
    /\ event'.type = "initial"
    /\ event'.passes = StatTypes

\* C23: start() schedules the four cron rules and begins the recompute in the
\* same step, without awaiting it; the recompute goes once through the four
\* granularities, and cron callbacks may run before it has ended.
StartSchedulesThenRecomputes == [][StartStep /\ InitialStep]_vars

\* A cron pass is in progress while the startup recompute still runs.
CronDuringStartup ==
  /\ initial.pc = "day"
  /\ hourly.pc = "day"
  /\ cleanup["daily"].pc = "run"

\* The rows' keys, without the dimension values, that the callbacks fired at
\* one instant write.
Fired ==
  (IF hourly.pc = "idle" THEN {}
   ELSE {[task |-> "hourly", statType |-> StatTypes[i],
          now |-> hourly.now,
          where |-> WhereConditions(StatTypes[i],
                                    TargetOf(StatTypes[i], hourly.now))]
           : i \in 1..Len(StatTypes)})
  \cup
  {[task |-> task, statType |-> CleanupType(task), now |-> cleanup[task].now,
    where |-> WhereConditions(CleanupType(task),
                              CleanupTarget(task, cleanup[task].now))]
     : task \in {c \in CleanupTasks : cleanup[c].pc = "run"}}

\* C29: the sub-passes of an hourly tick and the cleanup tasks that fired at
\* the same instant write pairwise different (time bucket, granularity) keys.
ConcurrentPassesDisjoint ==
  \A a, b \in Fired : (a # b /\ a.now = b.now) => a.where # b.where

\* The hourly tick, the daily and the weekly task run from the same instant.
BoundaryPassesTogether ==
  /\ hourly.pc # "idle"
  /\ cleanup["daily"].pc = "run"
  /\ cleanup["weekly"].pc = "run"
  /\ cleanup["daily"].now = hourly.now
  /\ cleanup["weekly"].now = hourly.now

\* The next instant after now at which a cron rule fires.
NextFire(rule, now) ==
  CHOOSE t \in (now + 1)..(now + 24 * 31) :
    /\ Matches(rule, t)
    /\ \A u \in (now + 1)..(t - 1) : ~Matches(rule, u)

\* C30: status reports isRunning as it is, true from start() to stop(), and
\* each next fire time it reports is the next instant the rule fires.
StatusNamesNextFire ==
  event.type = "status" =>
    /\ event.isRunning = (cronTasks = CronRules)
    /\ \A rule \in CronRules :
         event.nextUpdates[rule] = NextFire(rule, clock)

----------------------------------------------------------------------------
(* The rollup rows a pass writes *)

\* A pass is running that repeats the last pass that ended, and the raw
\* store has not changed since that pass read it.
RepeatRun ==
  /\ pass.pc # "idle"
  /\ \E s \in settled : s.statType = pass.statType /\ s.target = pass.target

OneRowPerKey ==
  \A r \in BagToSet(rollup) :
    /\ CopiesIn(r, rollup) = 1
    /\ \A o \in BagToSet(rollup) :
         (o.where = r.where /\ o.level = r.level) => o = r

\* The update or create of the pass's current row has been done.
Wrote == pass.pc = "write" /\ (pass'.pc = "find" \/ event'.type = "pass")

WrittenRowHoldsCount ==
  Wrote =>
    LET where == WhereConditions(pass.statType, pass.target)
        row == Head(pass.rows)
        held == {r \in BagToSet(rollup') :
                   r.where = where /\ r.level = row.level}
    IN /\ Cardinality(held) = 1
       /\ \A r \in held : CopiesIn(r, rollup') = 1 /\ r.count = row.count

\* C25: after a pass has written count m for a key, the table holds exactly
\* one row for the key and its count is m, whatever it was before; no key
\* ever has two rows.
UpsertReplaces == []OneRowPerKey /\ [][WrittenRowHoldsCount]_vars

\* A pass has ended that changed the count of a row that was there.
RowReplaced == event.type = "pass" /\ event.replaced >= 1

\* The raw records of a level inside the hour of t:
\* start-of-hour <= ts < start-of-next-hour.
InHour(raw, t, level) ==
  {r \in BagToSet(raw) :
     /\ r.level = level
     /\ r.ts >= SecondsPerHour * t
     /\ r.ts < SecondsPerHour * (t + 1)}

\* C26: when the HOUR pass for an hour has ended, every level with a raw
\* record inside the hour has its row, and the row's count is the number of
\* the level's raw records inside the hour.
HourPassCountsHour ==
  (event.type = "pass" /\ event.statType = "hour" /\ event.fresh) =>
    \A level \in Levels :
      InHour(rawStore, event.target, level) # {} =>
        \E r \in BagToSet(rollup) :
          /\ r.where = WhereConditions("hour", event.target)
          /\ r.level = level
          /\ r.count = CountAll(rawStore, InHour(rawStore, event.target, level))

RowKept(r) ==
  \/ CopiesIn(r, rollup') >= CopiesIn(r, rollup)
  \/ /\ pass.pc = "write"
     /\ r.where = WhereConditions(pass.statType, pass.target)
     /\ r.level = Head(pass.rows).level
     /\ \E o \in BagToSet(rollup') : o.where = r.where /\ o.level = r.level

\* C28: no step removes a rollup row, and no step changes a row other than
\* the one the pass is writing: a row whose key the pass does not produce
\* keeps its count.
RowsNeverDeleted == [][\A r \in BagToSet(rollup) : RowKept(r)]_vars

\* A pass has ended and a row of its time bucket is still there whose level
\* has no raw record in the window any more.
StaleRowKept ==
  /\ event.type = "pass"
  /\ event.fresh
  /\ \E r \in BagToSet(rollup) :
       /\ r.where = WhereConditions(event.statType, event.target)
       /\ \A raw \in InWindow(rawStore, event.statType, event.target) :
            raw.level # r.level

----------------------------------------------------------------------------
(* start() and stop() called again *)

\* The scheduler holds the four cron tasks while it runs and none otherwise.
FourTasksWhileRunning ==
  Cardinality(cronTasks) = (IF isRunning THEN Cardinality(CronRules) ELSE 0)

\* A call that found the scheduler in the state it asks for: it only warns.
RepeatedCallStep ==
  /\ (event'.type = "warned") =>
       UNCHANGED <<isRunning, cronTasks, hourly, cleanup, initial>>
  /\ (initial.pc = "idle" /\ initial'.pc # "idle") => ~isRunning
  /\ (isRunning /\ isRunning') => cronTasks' = cronTasks

\* C31: start() while running adds no cron task and begins no second startup
\* recompute, stop() while stopped changes nothing, and the scheduler has
\* four cron tasks when isRunning is true and none when it is false.
StartStopIdempotent == []FourTasksWhileRunning /\ [][RepeatedCallStep]_vars

\* start() has been called on the running scheduler after its startup
\* recompute had ended.
StartedTwice ==
  /\ event.type = "warned"
  /\ isRunning
  /\ initial.pc = "idle"

----------------------------------------------------------------------------
(* The order and the count of the writes of one drain *)

\* A drain has called insertFunction: the call was for the record after the
\* ones it had handled, and the record is counted once, as processed or as
\* failed.
InsertStep(k) ==
  (dpc[k] = "insert" /\ drain'[k].idx # drain[k].idx /\ dpc'[k] # "idle") =>
    LET d == drain[k]
        e == drain'[k]
        log == d.cachedLogs[d.idx + 1]
    IN /\ e.idx = d.idx + 1
       /\ e.cachedLogs = d.cachedLogs
       /\ e.processed + e.failed = e.idx
       /\ \/ /\ e.processed = d.processed + 1
             /\ e.processedLogs = d.processedLogs \cup {log}
             /\ log \in replayed'
             /\ e.errors = d.errors
          \/ /\ e.failed = d.failed + 1
             /\ e.errors = Append(d.errors, log.id)
             /\ e.processedLogs = d.processedLogs
             /\ replayed' = replayed

\* A drain that ended without a queue I/O exception has handled every record
\* of its snapshot.
DrainCountsSnapshot ==
  (event.type = "result" /\ event.how \in {"done", "empty"}) =>
    event.processed + event.failed = event.total

\* C32: within a drain insertFunction is called once for each record of the
\* snapshot read at the start, oldest first, and a drain that ends without a
\* queue I/O exception reports processed + failed = the snapshot's length.
DrainInQueueOrder ==
  []DrainCountsSnapshot /\ [][\A k \in Callers : InsertStep(k)]_vars

\* A drain over several records has ended with some written and some failed.
SeveralRecordsDrained ==
  /\ event.type = "result"
  /\ event.how = "done"
  /\ event.total >= 2
  /\ event.processed >= 1
  /\ event.failed >= 1

----------------------------------------------------------------------------
(* Records a drain has written that are still in the queue file *)

\* The records a running drain has written to the backend that the file
\* still holds.
WrittenStillQueued(k) == drain[k].processedLogs \cap Range(cacheFile)

\* C33: at every point of a drain, the records the drain has already written
\* to the backend and the queue file still holds are at most one batch.
AtMostOneBatchStillQueued ==
  \A k \in Callers :
    dpc[k] \in {"insert", "batchWrite", "clear"} =>
      Cardinality(WrittenStillQueued(k)) <= batchSize

----------------------------------------------------------------------------
(* The single-flight flag after a drain *)

\* A processCachedLogs call that had taken the flag has just returned.
DrainReturned ==
  event.type = "result" /\ event.how \in {"empty", "done", "error"}

\* C34: when a processCachedLogs call that ran has returned, on an empty
\* queue, with every record written, with failed writes or after a queue
\* file exception, isProcessing is false; the flag is set only while a drain
\* is running, so no later call is skipped for a drain that has ended.
FlagReleased ==
  /\ DrainReturned => ~isProcessing
  /\ isProcessing => Draining # {}

\* A drain has ended in the outer catch after it had written a record.
ReleasedAfterException ==
  /\ event.type = "result"
  /\ event.how = "error"
  /\ event.processed >= 1
  /\ ~isProcessing

----------------------------------------------------------------------------
(* The health flag and the retry counter *)

\* C35: in every reachable state of DatabaseHealth, isHealthy = true implies
\* retryCount = 0, also when probes overlap.
HealthyMeansNoRetries == isHealthy => retryCount = 0

----------------------------------------------------------------------------
(* Recovery when the process started during an outage *)

\* Records were queued and the backend is reachable.
BackendBack == dbUp /\ pc["start"] = "idle" /\ cacheFile # <<>>

\* C36: when the backend was unavailable at process start and becomes
\* available later, periodic probing is running, the health state becomes
\* healthy and the records queued meanwhile are drained, with no manual
\* trigger.
StartedDuringOutageRecovers ==
  /\ [](pc["start"] = "idle" => timers # {})
  /\ (BackendBack ~> OutageDrained)

----------------------------------------------------------------------------
(* A batch whose direct writes partly failed *)

\* createLogsBatch has answered with a success response to a batch it took
\* in the healthy state.
HealthyBatchAccepted ==
  /\ event.type = "response"
  /\ event.kind = "batch"
  /\ ~event.unhealthy
  /\ event.resp \in {"stored", "cached"}

\* C37: after createLogsBatch answered success for a batch submitted in the
\* healthy state, every record of the batch is in exactly one place: written
\* to the backend by its direct write, or appended to the queue.
BatchRecordInOnePlace ==
  HealthyBatchAccepted =>
    \A r \in Range(event.logs) : (r \in stored) # (r \in queuedEver)

----------------------------------------------------------------------------
(* The query windows as a cover of the timeline *)

Granularities == {"hour", "day", "week", "month"}

\* The periods of a granularity around a timestamp in seconds: the period
\* the timestamp's hour is in, the one before and the one after, each named
\* by its first hour.
PeriodsAround(statType, ts) ==
  LET h == ts \div SecondsPerHour
  IN {StartOf(statType, StartOf(statType, h) - 1),
      StartOf(statType, h),
      NextStartOf(statType, h)}

\* The periods whose query window [startTime, endTime) holds the timestamp.
WindowsHolding(statType, ts) ==
  {b \in PeriodsAround(statType, ts) :
     ts >= WindowStart(statType, b) /\ ts < WindowEnd(statType, b)}

\* C38: for every raw record and every granularity, exactly one period's
\* query window [startTime, endTime) holds the record's timestamp, the last
\* second before an hour boundary included.
WindowsPartitionTimeline ==
  \A r \in BagToSet(rawStore) : \A statType \in Granularities :
    Cardinality(WindowsHolding(statType, r.ts)) = 1

----------------------------------------------------------------------------
(* The week key against the week window *)

\* C39: the WEEK key is a function of the week window: a target time has the
\* key getTimeRange gave exactly when it is in the same Sunday-to-Saturday
\* window, also for the week that holds the turn of the year.
WeekKeyNamesWindow ==
  (event.type = "range" /\ event.statType = "week") =>
    \A u \in KeyTargets :
      (StartOf("week", u) = StartOf("week", event.target))
        <=> (StatKey("week", u) = event.where.stat_time)

----------------------------------------------------------------------------
(* A record that reaches the raw store after the hourly task has gone      *)
(* through its hour                                                        *)

\* The hours the scheduler is followed for after 2025-07-04 16:00; the last
\* one is midnight, when the daily cleanup task fires as well.
LateHours == 8

\* updateStatistics(statType, targetTime) up to the await of its query.
ScheduledPass(statType, target) ==
  [pc |-> "query", statType |-> statType, target |-> target, rows |-> <<>>,
   found |-> {}, fresh |-> TRUE, seen |-> 0, replaced |-> 0]

\* The clock reaches minute 0 of the next hour: the hourly task runs up to
\* the await of its HOUR pass for lastHour, and every cleanup rule that
\* matches the instant fires.
LateTick ==
  /\ clock < RollupHour + 1 + LateHours
  /\ hourly.pc = "idle"
  /\ pass.pc = "idle"
  /\ \A task \in CleanupTasks : cleanup[task].pc = "idle"
  /\ clock' = clock + 1
  /\ hourly' = [pc |-> "hour", now |-> clock + 1, passes |-> <<>>]
  /\ cleanup' = [task \in CleanupTasks |->
                   IF task \in cronTasks /\ Matches(task, clock + 1)
                   THEN [pc |-> "run", now |-> clock + 1]
                   ELSE cleanup[task]]
  /\ pass' = ScheduledPass("hour", TargetOf("hour", clock + 1))
  /\ event' = NoEvent
  /\ UNCHANGED <<cacheFile, isProcessing, isHealthy, retryCount, wasUnhealthy,
                 hcVars, dbUp, stored, replayed, nextId, pc, req, dpc, drain,
                 queuedEver, evicted, wcVars, isRunning, cronTasks, initial,
                 rawStore, rollup, settled, fields>>

\* The pass the hourly task awaits has settled: the task goes on to the
\* DAY, WEEK and MONTH passes for now, and ends after the last one or in its
\* catch when the pass threw.
LateContinue ==
  /\ hourly.pc # "idle"
  /\ pass.pc = "idle"
  /\ LET next == IF event.type = "threw" THEN "idle" ELSE PassAfter(hourly.pc)
     IN IF next = "idle"
        THEN /\ hourly' = NoTick
             /\ event' = [type |-> "tick", now |-> hourly.now,
                          passes |-> hourly.passes]
             /\ UNCHANGED pass
        ELSE /\ hourly' = [hourly EXCEPT !.pc = next]
             /\ pass' = ScheduledPass(next, TargetOf(next, hourly.now))
             /\ event' = NoEvent
  /\ UNCHANGED <<cacheFile, isProcessing, isHealthy, retryCount, wasUnhealthy,
                 hcVars, dbUp, stored, replayed, nextId, pc, req, dpc, drain,
                 queuedEver, evicted, wcVars, clock, schedVars, rawStore,
                 rollup, settled, fields>>

\* A cleanup task that fired recomputes the period before: DAY for
\* yesterday, WEEK for last week, MONTH for last month.  Its pass is followed
\* after the passes of the hourly task.
LateCleanup(task) ==
  /\ cleanup[task].pc = "run"
  /\ hourly.pc = "idle"
  /\ pass.pc = "idle"
  /\ cleanup' = [cleanup EXCEPT ![task] = NoCleanup]
  /\ pass' = ScheduledPass(CleanupType(task),
                           CleanupTarget(task, cleanup[task].now))
  /\ event' = NoEvent
  /\ UNCHANGED <<cacheFile, isProcessing, isHealthy, retryCount, wasUnhealthy,
                 hcVars, dbUp, stored, replayed, nextId, pc, req, dpc, drain,
                 queuedEver, evicted, wcVars, clock, hourly, isRunning,
                 cronTasks, initial, rawStore, rollup, settled, fields>>

\* A record made in the first second of the hour 15:00 reaches the raw store
\* with the timestamp it was made with; the continuation of a settled pass
\* runs before any other callback.
LateInsert ==
  /\ ~(hourly.pc # "idle" /\ pass.pc = "idle")
  /\ RawInsert
  /\ \A r \in BagToSet(rawStore') : r.ts = SecondsPerHour * RollupHour

\* 2025-07-04 16:00: the scheduler is started, the hourly task of 16:00 has
\* gone through the hour 15:00 on a raw store that held nothing.
InitLate ==
  /\ maxCacheSize = EntryBound
  /\ maxFileSize = ByteBound
  /\ offered = [records |-> 0, sizes |-> {1}, messages |-> {TRUE},
                ioFails |-> FALSE, failures |-> MaxRetryCount]
  /\ InitProcess(<<>>, {TRUE})
  /\ InitHealthCheck(TRUE)
  /\ InitWriteCacheIdle
  /\ InitScheduler(TRUE)
  /\ InitRollup
  /\ clock = RollupHour + 1

NextLate ==
  \/ LateInsert
  \/ LateTick
  \/ LateContinue
  \/ \E task \in CleanupTasks : LateCleanup(task)
  \/ PassQuery
  \/ PassFind
  \/ PassWrite

\* The steps of a pass: the query, findOne and the write settle.
PassStep ==
  \/ PassQuery
  \/ PassFind
  \/ PassWrite

\* Weak fairness of the steps of a pass, with the enabling condition written
\* out: one of them is enabled exactly while a pass is awaiting an answer.
PassesSettle == []<>(pass.pc = "idle") \/ []<><<PassStep>>_vars

\* node-cron fires every rule at its instant, the continuations run and the
\* awaited queries settle.
SpecLate ==
  /\ InitLate
  /\ [][NextLate]_vars
  /\ WF_vars(LateTick)
  /\ WF_vars(LateContinue)
  /\ WF_vars(\E task \in CleanupTasks : LateCleanup(task))
  /\ PassesSettle

\* Before 17:00 the raw store holds a record of the level whose timestamp is
\* in the hour 15:00, which the hourly task went through at 16:00: every
\* task the scheduler fires from 17:00 on comes after the record.
LateRecord(level) ==
  /\ clock = RollupHour + 1
  /\ \E r \in BagToSet(rawStore) :
       r.ts = SecondsPerHour * RollupHour /\ r.level = level

\* The HOUR row of the hour 15:00 and the level counts a record.
LateCounted(level) ==
  \E row \in BagToSet(rollup) :
    /\ row.where = WhereConditions("hour", RollupHour)
    /\ row.level = level
    /\ row.count >= 1

\* Every HOUR pass the scheduler starts is for the hour before the clock's:
\* the hours it goes through only move away from an hour it has left, also
\* past the hours followed here.
HourPassIsForLastHour ==
  [][(pass.pc = "idle" /\ pass'.pc = "query" /\ pass'.statType = "hour")
       => pass'.target = clock' - 1]_vars

============================================================================
